---- MODULE Spec2Model ----
(***************************************************************************)
(* A model of the absfs/unionfs engine: an ordered stack of layers, the    *)
(* writable layer at index 0 (Go) = position 1 (here), whiteouts, opaque   *)
(* markers, copy-up, and the stat cache with its TTLs.                     *)
(*                                                                         *)
(* A name is a sequence of tokens (".wh." is one token), a path is a       *)
(* sequence of names; <<>> is "/".  Layer i of the Go code is layers[i+1]; *)
(* the layer indices stored in results and in the cache are the Go ones    *)
(* (0 = writable layer, -1 = none).                                        *)
(***************************************************************************)
EXTENDS Integers, Sequences, FiniteSets, TLC

VARIABLES
    layers,   \* UnionFS.layers: the backends, top first
    cache,    \* UnionFS.cache: the two maps
    now,      \* time.Now()
    cfg,      \* what the options of New set
    fh,       \* the file handle OpenFile returned and the caller holds
    nops,     \* the mutating calls made so far
    nreads,   \* the reading calls made so far
    last,     \* the last call, what it returned and what it found
    calls,    \* the calls in flight: each caller's position and locals
    built     \* the UnionFS the options of New have built so far

vars == <<layers, cache, now, cfg, fh, nops, nreads, last, calls, built>>

-----------------------------------------------------------------------------
(* Bounds of the model *)

\* the clock advances from 0 up to MaxClock
MaxClock == 1
\* a file holds at most MaxLen bytes
MaxLen == 1
\* WithCacheConfig is given a maxEntries of 0 up to MaxEntries
MaxEntries == 2
\* New is given at most MaxOpts layer options
MaxOpts == 4
\* a behaviour makes at most MaxOps mutating calls
MaxOps == 2
\* and at most MaxReads reading calls (Stat, ReadFile, a read-only Open)
MaxReads == 1
MaxPos == 3

\* the longest string given to cleanPath
MaxStr == 5

-----------------------------------------------------------------------------
(* Names and paths: unionfs.go *)

WhiteoutPrefix == <<".wh.">>

OpaqueWhiteout == <<".wh.", "__dir_opaque">>

Root == <<>>

\* path.Dir: the parent of a path, "/" for "/"
Dir(p) == IF p = Root THEN Root ELSE SubSeq(p, 1, Len(p) - 1)

\* path.Base as a name; the empty name stands for the "/" path.Base("/") returns
Base(p) == IF p = Root THEN <<>> ELSE p[Len(p)]

\* path.Join(dir, name)
Join(d, n) == Append(d, n)

\* strings.HasPrefix on names
HasPrefix(n, pre) == Len(n) >= Len(pre) /\ SubSeq(n, 1, Len(pre)) = pre

isWhiteout(p) == HasPrefix(Base(p), WhiteoutPrefix)

isOpaqueWhiteout(p) == Base(p) = OpaqueWhiteout

whiteoutPath(p) == Join(Dir(p), WhiteoutPrefix \o Base(p))

\* the proper ancestors of p up to "/" excluded, nearest first: the values
\* the loop variable dir of checkWhiteout takes
AncestorDirs(p) == { SubSeq(p, 1, k) : k \in 1..(Len(p) - 1) }

\* the path as the string the cache keys on: "/" then the names joined by "/"
RECURSIVE Render(_)
Render(p) ==
    IF p = Root THEN <<"/">>
    ELSE IF Len(p) = 1 THEN <<"/">> \o p[1]
    ELSE Render(Dir(p)) \o <<"/">> \o Base(p)

\* path[:len(pathPrefix)] == pathPrefix
HasBytePrefix(p, prefix) ==
    LET s == Render(p)
        t == Render(prefix)
    IN  Len(s) >= Len(t) /\ SubSeq(s, 1, Len(t)) = t

\* p is q or below q
IsUnder(p, q) == Len(p) >= Len(q) /\ SubSeq(p, 1, Len(q)) = q

-----------------------------------------------------------------------------
(* The backend of a layer: a function from the paths it holds to entries.  *)
(* "/" is always held.  Errors are the kinds the engine distinguishes.     *)

OK == "ok"
ErrNotExist == "not-found"
ErrExist == "exists"
ErrInvalid == "invalid"
ErrNoWritableLayer == "no-writable-layer"
ErrIO == "io"
ErrEOF == "eof"
ErrClosed == "closed"

DirEntry(mode) == [dir |-> TRUE, data |-> <<>>, mode |-> mode, uid |-> 0, mtime |-> 0]

FileEntry(data, mode) == [dir |-> FALSE, data |-> data, mode |-> mode, uid |-> 0, mtime |-> 0]

\* os.FileInfo as a backend Stat returns it
InfoOf(e) == [dir |-> e.dir, size |-> Len(e.data), mode |-> e.mode, mtime |-> e.mtime]

Has(fs, p) == p \in DOMAIN fs

IsDirIn(fs, p) == Has(fs, p) /\ fs[p].dir

\* fs with p set to e
Put(fs, p, e) == [q \in DOMAIN fs \cup {p} |-> IF q = p THEN e ELSE fs[q]]

\* fs without the paths of the set gone
Drop(fs, gone) == [q \in DOMAIN fs \ gone |-> fs[q]]

Children(fs, p) == { q \in DOMAIN fs : Len(q) = Len(p) + 1 /\ Dir(q) = p }

\* fs.MkdirAll(p, perm): every missing prefix becomes a directory
BMkdirAll(fs, p, perm) ==
    LET pre == { SubSeq(p, 1, k) : k \in 1..Len(p) }
    IN  IF \E q \in pre : Has(fs, q) /\ ~fs[q].dir
        THEN [fs |-> fs, err |-> ErrIO]
        ELSE [fs |-> [q \in DOMAIN fs \cup pre |->
                          IF Has(fs, q) THEN fs[q] ELSE DirEntry(perm)],
              err |-> OK]

\* fs.Mkdir(p, perm)
BMkdir(fs, p, perm) ==
    IF Has(fs, p) THEN [fs |-> fs, err |-> ErrExist]
    ELSE IF ~IsDirIn(fs, Dir(p)) THEN [fs |-> fs, err |-> ErrNotExist]
    ELSE [fs |-> Put(fs, p, DirEntry(perm)), err |-> OK]

\* fs.Remove(p): a file or an empty directory
BRemove(fs, p) ==
    IF ~Has(fs, p) THEN [fs |-> fs, err |-> ErrNotExist]
    ELSE IF Children(fs, p) # {} THEN [fs |-> fs, err |-> ErrIO]
    ELSE [fs |-> Drop(fs, {p}), err |-> OK]

\* fs.RemoveAll(p): the subtree, no error when it is absent
BRemoveAll(fs, p) ==
    [fs |-> Drop(fs, { q \in DOMAIN fs : IsUnder(q, p) }), err |-> OK]

\* fs.Rename(old, new): moves the subtree of old
BRename(fs, old, new) ==
    IF ~Has(fs, old) THEN [fs |-> fs, err |-> ErrNotExist]
    ELSE IF ~IsDirIn(fs, Dir(new)) THEN [fs |-> fs, err |-> ErrNotExist]
    ELSE IF old = new THEN [fs |-> fs, err |-> OK]
    ELSE IF IsUnder(new, old) THEN [fs |-> fs, err |-> ErrInvalid]
    ELSE IF Has(fs, new) /\ (fs[new].dir # fs[old].dir \/ Children(fs, new) # {})
         THEN [fs |-> fs, err |-> ErrExist]
    ELSE LET moved == { q \in DOMAIN fs : IsUnder(q, old) }
             dest(q) == new \o SubSeq(q, Len(old) + 1, Len(q))
             kept == (DOMAIN fs \ moved) \ {new}
         IN  [fs |-> [q \in kept \cup { dest(m) : m \in moved } |->
                        IF q \in kept THEN fs[q]
                        ELSE fs[CHOOSE m \in moved : dest(m) = q]],
              err |-> OK]

\* fs.Chmod / fs.Chown / fs.Chtimes
BChmod(fs, p, mode) ==
    IF ~Has(fs, p) THEN [fs |-> fs, err |-> ErrNotExist]
    ELSE [fs |-> Put(fs, p, [fs[p] EXCEPT !.mode = mode]), err |-> OK]

BChown(fs, p, uid) ==
    IF ~Has(fs, p) THEN [fs |-> fs, err |-> ErrNotExist]
    ELSE [fs |-> Put(fs, p, [fs[p] EXCEPT !.uid = uid]), err |-> OK]

BChtimes(fs, p, mtime) ==
    IF ~Has(fs, p) THEN [fs |-> fs, err |-> ErrNotExist]
    ELSE [fs |-> Put(fs, p, [fs[p] EXCEPT !.mtime = mtime]), err |-> OK]

\* the os.O_* flags are the members of a set
IsWriteFlag(flag) == flag \cap {"WRONLY", "RDWR", "APPEND", "CREATE", "TRUNC"} # {}

\* fs.OpenFile(p, flag, perm)
BOpenFile(fs, p, flag, perm) ==
    IF Has(fs, p)
    THEN IF {"CREATE", "EXCL"} \subseteq flag THEN [fs |-> fs, err |-> ErrExist]
         ELSE IF fs[p].dir /\ IsWriteFlag(flag) THEN [fs |-> fs, err |-> ErrIO]
         ELSE IF "TRUNC" \in flag
              THEN [fs |-> Put(fs, p, [fs[p] EXCEPT !.data = <<>>]), err |-> OK]
              ELSE [fs |-> fs, err |-> OK]
    ELSE IF "CREATE" \notin flag THEN [fs |-> fs, err |-> ErrNotExist]
    ELSE IF ~IsDirIn(fs, Dir(p)) THEN [fs |-> fs, err |-> ErrNotExist]
    ELSE [fs |-> Put(fs, p, FileEntry(<<>>, perm)), err |-> OK]

\* fs.Create(p)
BCreate(fs, p) == BOpenFile(fs, p, {"RDWR", "CREATE", "TRUNC"}, 438)

-----------------------------------------------------------------------------
(* The stat cache.  A cache value is [stat, neg]: the two maps.  A         *)
(* disabled cache keeps both maps empty and every method is a no-op.       *)

EmptyMap == [q \in {} |-> 0]

EmptyCache == [stat |-> EmptyMap, neg |-> EmptyMap]

\* getStat: TRUE when an entry exists and time.Now() is not after expires
getStatHit(c, p) ==
    /\ cfg.enabled
    /\ p \in DOMAIN c.stat
    /\ ~(now > c.stat[p].expires)

\* isNegative
isNegative(c, p) ==
    /\ cfg.enabled
    /\ p \in DOMAIN c.neg
    /\ ~(now > c.neg[p].expires)

\* evictOldestStat / evictOldestNegative: one entry of minimal expiry goes.
\* Go ranges over the map in no fixed order and keeps the first minimal
\* entry met; which of several minimal entries goes is left to CHOOSE.
evictOldest(map) ==
    IF DOMAIN map = {} THEN map
    ELSE LET victim == CHOOSE p \in DOMAIN map :
                           \A q \in DOMAIN map : map[p].expires <= map[q].expires
         IN  Drop(map, {victim})

putStat(c, p, info, layer) ==
    IF ~cfg.enabled THEN c
    ELSE LET s == IF Cardinality(DOMAIN c.stat) >= cfg.maxEntries
                  THEN evictOldest(c.stat) ELSE c.stat
         IN  [c EXCEPT !.stat = Put(s, p, [info |-> info, layer |-> layer,
                                            expires |-> now + cfg.statTTL])]

putNegative(c, p) ==
    IF ~cfg.enabled THEN c
    ELSE LET s == IF Cardinality(DOMAIN c.neg) >= cfg.maxEntries
                  THEN evictOldest(c.neg) ELSE c.neg
         IN  [c EXCEPT !.neg = Put(s, p, [expires |-> now + cfg.negativeTTL])]

invalidate(c, p) ==
    IF ~cfg.enabled THEN c
    ELSE [stat |-> Drop(c.stat, {p}), neg |-> Drop(c.neg, {p})]

\* clear
clear(c) == IF ~cfg.enabled THEN c ELSE EmptyCache

\* invalidateTree removing the prefix and the paths below it only
invalidateTree_Below(c, prefix) ==
    IF ~cfg.enabled THEN c
    ELSE [stat |-> Drop(c.stat, { q \in DOMAIN c.stat : IsUnder(q, prefix) }),
          neg |-> Drop(c.neg, { q \in DOMAIN c.neg : IsUnder(q, prefix) })]

invalidateTree(c, prefix) ==
    IF ~cfg.enabled THEN c
    ELSE [stat |-> Drop(c.stat, { q \in DOMAIN c.stat : HasBytePrefix(q, prefix) }),
          neg |-> Drop(c.neg, { q \in DOMAIN c.neg : HasBytePrefix(q, prefix) })]

-----------------------------------------------------------------------------
(* The resolver.  An engine value m is [layers, cache]; the operations on  *)
(* it return the new engine value next to their results.                   *)

NoInfo == [dir |-> FALSE, size |-> 0, mode |-> 0, mtime |-> 0]

\* checkWhiteout(p, startLayer): a whiteout of p, or an opaque marker in a
\* parent directory of p other than "/", in a layer above startLayer
checkWhiteout(ls, p, startLayer) ==
    \E i \in 0..(startLayer - 1) :
        \/ Has(ls[i + 1], whiteoutPath(p))
        \/ \E d \in AncestorDirs(p) : Has(ls[i + 1], Join(d, OpaqueWhiteout))

\* the layers findFile's loop does not skip and that hold p
Candidates(ls, p) ==
    { i \in 0..(Len(ls) - 1) : ~checkWhiteout(ls, p, i) /\ Has(ls[i + 1], p) }

Min(S) == CHOOSE x \in S : \A y \in S : x <= y

\* the layer loop of findFile over the layers it does not skip and that
\* hold p: the first one owns p and is cached, none is cached as a miss
findInLayers(m, p, found) ==
    IF found # {}
    THEN LET i == Min(found)
             info == InfoOf(m.layers[i + 1][p])
         IN  [info |-> info, layer |-> i, err |-> OK,
              m |-> [m EXCEPT !.cache = putStat(m.cache, p, info, i)]]
    ELSE [info |-> NoInfo, layer |-> -1, err |-> ErrNotExist,
          m |-> [m EXCEPT !.cache = putNegative(m.cache, p)]]

\* findFile that does not ask the negative cache
findFile_NoNegative(m, p) ==
    IF getStatHit(m.cache, p)
    THEN [info |-> m.cache.stat[p].info, layer |-> m.cache.stat[p].layer,
          err |-> OK, m |-> m]
    ELSE findInLayers(m, p, Candidates(m.layers, p))

\* findFile: the cache first, then the layers top to bottom
findFile(m, p) ==
    IF getStatHit(m.cache, p)
    THEN [info |-> m.cache.stat[p].info, layer |-> m.cache.stat[p].layer,
          err |-> OK, m |-> m]
    ELSE IF isNegative(m.cache, p)
    THEN [info |-> NoInfo, layer |-> -1, err |-> ErrNotExist, m |-> m]
    ELSE findInLayers(m, p, Candidates(m.layers, p))

\* the result of an engine step: the engine value and the error
Res(m, err) == [m |-> m, err |-> err]

\* SetW taking the bottom of the stack for the writable layer
SetW_LastLayer(m, fs) == [m EXCEPT !.layers[Len(m.layers)] = fs]

\* m with the backend of the writable layer replaced
SetW(m, fs) == [m EXCEPT !.layers[1] = fs]

\* InvalidateCache / InvalidateCacheTree
InvalidateCache(m, p) == [m EXCEPT !.cache = invalidate(m.cache, p)]

InvalidateCacheTree(m, p) == [m EXCEPT !.cache = invalidateTree(m.cache, p)]

\* os.FileMode 0755, the mode ensureDir creates directories with
DirPerm == 493

\* ensureDir: the parent directory of p exists in the writable layer
ensureDir(m, p) ==
    IF ~cfg.writable THEN Res(m, ErrNoWritableLayer)
    ELSE IF Dir(p) = Root THEN Res(m, OK)
    ELSE IF Has(m.layers[1], Dir(p)) THEN Res(m, OK)
    ELSE LET r == BMkdirAll(m.layers[1], Dir(p), DirPerm)
         IN  Res(SetW(m, r.fs), r.err)

-----------------------------------------------------------------------------
(* Copy-up: copyup.go *)

\* io.CopyBuffer stopping after the first chunk
CopyBuffer_OneChunk(dst, src, off, buf) ==
    IF off >= Len(src) THEN dst
    ELSE dst \o SubSeq(src, off + 1, IF Len(src) < off + buf THEN Len(src) ELSE off + buf)

\* io.CopyBuffer: src is read from offset off in chunks of at most buf bytes,
\* each chunk appended to dst
RECURSIVE CopyBuffer(_, _, _, _)
CopyBuffer(dst, src, off, buf) ==
    IF off >= Len(src) THEN dst
    ELSE LET n == IF Len(src) - off < buf THEN Len(src) - off ELSE buf
         IN  CopyBuffer(dst \o SubSeq(src, off + 1, off + n), src, off + n, buf)

\* copyUpFile once findFile has answered f
copyUpFileFrom(f, p, info) ==
    IF f.err # OK THEN Res(f.m, f.err)
    ELSE IF f.layer = 0 THEN Res(f.m, OK)
    ELSE LET src == f.m.layers[f.layer + 1]
         IN  IF ~Has(src, p) THEN Res(f.m, ErrIO)
             ELSE LET o == BOpenFile(f.m.layers[1], p,
                                     {"CREATE", "WRONLY", "TRUNC"}, info.mode)
                  IN  IF o.err # OK THEN Res(f.m, ErrIO)
                      ELSE IF src[p].dir THEN Res(SetW(f.m, o.fs), ErrIO)
                      ELSE LET data == CopyBuffer(<<>>, src[p].data, 0,
                                                  cfg.copyBufferSize)
                               w == Put(o.fs, p, [o.fs[p] EXCEPT !.data = data])
                               c == BChmod(w, p, info.mode)
                               t == BChtimes(c.fs, p, info.mtime)
                           IN  Res(SetW(f.m, t.fs), OK)

copyUpFile(m, p, info) ==
    IF ~cfg.writable THEN Res(m, ErrNoWritableLayer)
    ELSE copyUpFileFrom(findFile(m, p), p, info)

copyUpDir(m, p, info) ==
    IF ~cfg.writable THEN Res(m, ErrNoWritableLayer)
    ELSE LET d == BMkdirAll(m.layers[1], p, info.mode)
         IN  IF d.err # OK THEN Res(m, ErrIO)
             ELSE LET c == BChmod(d.fs, p, info.mode)
                      t == BChtimes(c.fs, p, info.mtime)
                  IN  Res(SetW(m, t.fs), OK)

\* copyUp once ensureDir has answered e
copyUpInto(e, p, info) ==
    IF e.err # OK THEN e
    ELSE IF info.dir THEN copyUpDir(e.m, p, info)
    ELSE copyUpFile(e.m, p, info)

copyUp(m, p, info) ==
    IF ~cfg.writable THEN Res(m, ErrNoWritableLayer)
    ELSE IF Has(m.layers[1], p) THEN Res(m, OK)
    ELSE copyUpInto(ensureDir(m, p), p, info)

\* the step shared by the calls that change a path: what findFile found in
\* a lower layer (layerIdx > 0) is copied up first
copyUpIfLower(f, p) ==
    IF f.layer > 0 THEN copyUp(f.m, p, f.info) ELSE Res(f.m, OK)

-----------------------------------------------------------------------------
(* File operations: file_ops.go.  Each returns Res(engine value, error);   *)
(* what a failed operation already did to the writable layer stays done.   *)
(* An operation is written as its steps in order, each step taking the     *)
(* answer of the step before it.                                           *)

\* OpenFileInWritable without its removal of the whiteout
OpenFileInWritable_KeepWhiteout(c, p, flag, perm) ==
    IF c.err # OK THEN c
    ELSE LET i == InvalidateCache(c.m, p)
             o == BOpenFile(i.layers[1], p, flag, perm)
         IN  Res(SetW(i, o.fs), o.err)

\* OpenFileInWritable without its InvalidateCache(name)
OpenFileInWritable_NoInvalidate(c, p, flag, perm) ==
    IF c.err # OK THEN c
    ELSE LET w == BRemove(c.m.layers[1], whiteoutPath(p))
             i == SetW(c.m, w.fs)
             o == BOpenFile(i.layers[1], p, flag, perm)
         IN  Res(SetW(i, o.fs), o.err)

\* the end of the write branch, c the answer of the copy-up: the whiteout
\* of p is removed, the cache entry of p dropped, p opened in the writable
\* layer
OpenFileInWritable(c, p, flag, perm) ==
    IF c.err # OK THEN c
    ELSE LET w == BRemove(c.m.layers[1], whiteoutPath(p))
             i == InvalidateCache(SetW(c.m, w.fs), p)
             o == BOpenFile(i.layers[1], p, flag, perm)
         IN  Res(SetW(i, o.fs), o.err)

\* the write branch once findFile has answered f
OpenFileCopyUp(f, p, flag, perm) ==
    IF f.err = OK /\ f.layer > 0
    THEN OpenFileInWritable(copyUp(f.m, p, f.info), p, flag, perm)
    ELSE OpenFileInWritable(Res(f.m, OK), p, flag, perm)

\* the write branch once ensureDir has answered e: no lookup under
\* O_CREATE|O_EXCL
OpenFileResolve(e, p, flag, perm) ==
    IF e.err # OK THEN e
    ELSE IF ("CREATE" \notin flag) \/ ("EXCL" \notin flag)
    THEN OpenFileCopyUp(findFile(e.m, p), p, flag, perm)
    ELSE OpenFileInWritable(Res(e.m, OK), p, flag, perm)

\* the write branch of OpenFile
OpenFileWrite(m, p, flag, perm) ==
    IF ~cfg.writable THEN Res(m, ErrNoWritableLayer)
    ELSE OpenFileResolve(ensureDir(m, p), p, flag, perm)

\* the write branch up to its InvalidateCache(name), once ensureDir has
\* answered e: the lookup, the copy-up, the whiteout's removal, the
\* invalidation; the backend's OpenFile is still to come
OpenFilePrepareIn(e, p) ==
    IF e.err # OK THEN e
    ELSE IF copyUpIfLower(findFile(e.m, p), p).err # OK
    THEN copyUpIfLower(findFile(e.m, p), p)
    ELSE Res(InvalidateCache(SetW(copyUpIfLower(findFile(e.m, p), p).m,
                                  BRemove(copyUpIfLower(findFile(e.m, p), p).m.layers[1],
                                          whiteoutPath(p)).fs), p), OK)

OpenFilePrepare(m, p) == OpenFilePrepareIn(ensureDir(m, p), p)

\* the read branch once findFile has answered f
OpenFileReadFound(f, p) ==
    IF f.err # OK THEN [m |-> f.m, err |-> f.err, layer |-> -1, dir |-> FALSE]
    ELSE IF f.info.dir THEN [m |-> f.m, err |-> OK, layer |-> f.layer, dir |-> TRUE]
    ELSE [m |-> f.m, err |-> BOpenFile(f.m.layers[f.layer + 1], p, {}, 0).err,
          layer |-> f.layer, dir |-> FALSE]

\* the read branch of OpenFile: resolve, then open on the owning layer
OpenFileRead(m, p) == OpenFileReadFound(findFile(m, p), p)

\* Mkdir once ensureDir has answered e
MkdirIn(e, p, perm) ==
    IF e.err # OK THEN e
    ELSE LET w == BRemove(e.m.layers[1], whiteoutPath(p))
             d == BMkdir(w.fs, p, perm)
             n == SetW(e.m, d.fs)
         IN  IF d.err = OK THEN Res(InvalidateCache(n, p), OK)
             ELSE Res(n, d.err)

MkdirOp(m, p, perm) ==
    IF ~cfg.writable THEN Res(m, ErrNoWritableLayer)
    ELSE MkdirIn(ensureDir(m, p), p, perm)

\* the loop of MkdirAll: the whiteout of every prefix of p is removed
RECURSIVE RemoveWhiteouts(_, _, _)
RemoveWhiteouts(fs, p, k) ==
    IF k > Len(p) THEN fs
    ELSE RemoveWhiteouts(BRemove(fs, whiteoutPath(SubSeq(p, 1, k))).fs, p, k + 1)

MkdirAllOp(m, p, perm) ==
    IF ~cfg.writable THEN Res(m, ErrNoWritableLayer)
    ELSE LET w == RemoveWhiteouts(m.layers[1], p, 1)
             d == BMkdirAll(w, p, perm)
             n == SetW(m, d.fs)
         IN  IF d.err = OK THEN Res(InvalidateCacheTree(n, p), OK)
             ELSE Res(n, d.err)

\* ensureDir(whiteout) answered e, then layer.fs.Create(whiteout)
CreateWhiteoutIn(e, p) ==
    IF e.err # OK THEN e
    ELSE LET c == BCreate(e.m.layers[1], whiteoutPath(p))
         IN  Res(SetW(e.m, c.fs), c.err)

CreateWhiteout(m, p) == CreateWhiteoutIn(ensureDir(m, whiteoutPath(p)), p)

\* the end of Remove, c the answer of the whiteout's creation
RemoveDone(c, p) ==
    IF c.err # OK THEN c ELSE Res(InvalidateCache(c.m, p), OK)

\* Remove once findFile has answered f
RemoveFound(f, p) ==
    IF f.err # OK THEN Res(f.m, f.err)
    ELSE LET r == IF f.layer = 0 THEN BRemove(f.m.layers[1], p)
                  ELSE [fs |-> f.m.layers[1], err |-> OK]
         IN  IF r.err # OK THEN Res(f.m, r.err)
             ELSE \* layerIdx > 0 || info != nil: always taken
                  RemoveDone(CreateWhiteout(SetW(f.m, r.fs), p), p)

RemoveOp(m, p) ==
    IF ~cfg.writable THEN Res(m, ErrNoWritableLayer)
    ELSE RemoveFound(findFile(m, p), p)

\* the end of RemoveAll, c the answer of the whiteout's creation
RemoveAllDone(c, p) ==
    IF c.err # OK THEN c ELSE Res(InvalidateCacheTree(c.m, p), OK)

\* RemoveAll once findFile has answered f
RemoveAllFound(f, p) ==
    IF f.err # OK THEN Res(f.m, f.err)
    ELSE LET r == IF f.layer = 0 THEN BRemoveAll(f.m.layers[1], p)
                  ELSE [fs |-> f.m.layers[1], err |-> OK]
         IN  IF r.err # OK THEN Res(f.m, r.err)
             ELSE IF f.layer > 0
             THEN RemoveAllDone(CreateWhiteout(SetW(f.m, r.fs), p), p)
             ELSE RemoveAllDone(Res(SetW(f.m, r.fs), OK), p)

RemoveAllOp(m, p) ==
    IF ~cfg.writable THEN Res(m, ErrNoWritableLayer)
    ELSE RemoveAllFound(findFile(m, p), p)

\* the end of Rename, c the answer of the whiteout's creation
RenameDone(c, old, new) ==
    IF c.err # OK THEN c
    ELSE Res(InvalidateCache(InvalidateCache(c.m, old), new), OK)

\* RenameWhiteout leaving no whiteout for the old name
RenameWhiteout_NoWhiteout(n, layerIdx, old, new) ==
    RenameDone(Res(n, OK), old, new)

\* Rename after the backend's rename left the engine as n: what came from a
\* lower layer (layerIdx > 0) gets a whiteout for its old name
RenameWhiteout(n, layerIdx, old, new) ==
    IF layerIdx > 0 THEN RenameDone(CreateWhiteout(n, old), old, new)
    ELSE RenameDone(Res(n, OK), old, new)

\* Rename once ensureDir(newname) has answered e
RenameInto(e, layerIdx, old, new) ==
    IF e.err # OK THEN e
    ELSE LET w == BRemove(e.m.layers[1], whiteoutPath(new))
             r == BRename(w.fs, old, new)
         IN  IF r.err # OK THEN Res(SetW(e.m, w.fs), r.err)
             ELSE RenameWhiteout(SetW(e.m, r.fs), layerIdx, old, new)

\* Rename once the copy-up has answered u
RenameCopied(u, layerIdx, old, new) ==
    IF u.err # OK THEN u
    ELSE RenameInto(ensureDir(u.m, new), layerIdx, old, new)

\* Rename once findFile has answered f
RenameFound(f, old, new) ==
    IF f.err # OK THEN Res(f.m, f.err)
    ELSE RenameCopied(copyUpIfLower(f, old), f.layer, old, new)

RenameOp(m, old, new) ==
    IF ~cfg.writable THEN Res(m, ErrNoWritableLayer)
    ELSE RenameFound(findFile(m, old), old, new)

\* Chmod, Chown or Chtimes once the copy-up has answered u
MetaApply(u, p, call, arg) ==
    IF u.err # OK THEN u
    ELSE LET a == CASE call = "Chmod" -> BChmod(u.m.layers[1], p, arg)
                    [] call = "Chown" -> BChown(u.m.layers[1], p, arg)
                    [] OTHER          -> BChtimes(u.m.layers[1], p, arg)
         IN  IF a.err = OK THEN Res(InvalidateCache(SetW(u.m, a.fs), p), OK)
             ELSE Res(u.m, a.err)

\* Chmod, Chown or Chtimes once findFile has answered f
MetaFound(f, p, call, arg) ==
    IF f.err # OK THEN Res(f.m, f.err)
    ELSE MetaApply(copyUpIfLower(f, p), p, call, arg)

\* Chmod, Chown and Chtimes differ in the backend call only
MetaOp(m, p, call, arg) ==
    IF ~cfg.writable THEN Res(m, ErrNoWritableLayer)
    ELSE MetaFound(findFile(m, p), p, call, arg)

ChmodOp(m, p, mode) == MetaOp(m, p, "Chmod", mode)

ChownOp(m, p, uid) == MetaOp(m, p, "Chown", uid)

ChtimesOp(m, p, mtime) == MetaOp(m, p, "Chtimes", mtime)

\* the backend's Symlink capability: the in-memory backend has none, and
\* Symlink answers os.ErrInvalid
BSymlink(fs, old, new) == [fs |-> fs, err |-> ErrInvalid]

\* Symlink once ensureDir(newname) has answered e: the whiteout of newname
\* is removed, then the backend is asked
SymlinkIn(e, old, new) ==
    IF e.err # OK THEN e
    ELSE LET w == BRemove(e.m.layers[1], whiteoutPath(new))
             l == BSymlink(w.fs, old, new)
         IN  Res(SetW(e.m, l.fs), l.err)

SymlinkOp(m, old, new) ==
    IF ~cfg.writable THEN Res(m, ErrNoWritableLayer)
    ELSE SymlinkIn(ensureDir(m, new), old, new)

\* Lchown once Lstat and the layer loop have answered found, the layers
\* that hold p unhidden: neither looks at the cache
LchownIn(m, p, uid, found) ==
    IF found = {} THEN Res(m, ErrNotExist)
    ELSE IF Min(found) > 0
    THEN MetaApply(copyUp(m, p, InfoOf(m.layers[Min(found) + 1][p])), p, "Chown", uid)
    ELSE MetaApply(Res(m, OK), p, "Chown", uid)

\* LchownOp without its getWritableLayer check
LchownOp_NoWritableCheck(m, p, uid) == LchownIn(m, p, uid, Candidates(m.layers, p))

\* Lchown: the backend has no Lchown of its own and Chown stands in
LchownOp(m, p, uid) ==
    IF ~cfg.writable THEN Res(m, ErrNoWritableLayer)
    ELSE LchownIn(m, p, uid, Candidates(m.layers, p))

\* the first size bytes of data, zero-filled when data is shorter
Resize(data, size) == [k \in 1..size |-> IF k <= Len(data) THEN data[k] ELSE 0]

\* the writable backend's Truncate(name, size)
BTruncate(fs, p, size) ==
    IF ~Has(fs, p) THEN [fs |-> fs, err |-> ErrNotExist]
    ELSE IF fs[p].dir THEN [fs |-> fs, err |-> ErrIO]
    ELSE [fs |-> Put(fs, p, [fs[p] EXCEPT !.data = Resize(fs[p].data, size)]), err |-> OK]

\* TruncateApply without its InvalidateCache(name)
TruncateApply_NoInvalidate(u, p, size) ==
    IF u.err # OK THEN u
    ELSE LET a == BTruncate(u.m.layers[1], p, size)
         IN  IF a.err = OK THEN Res(SetW(u.m, a.fs), OK)
             ELSE Res(u.m, a.err)

\* Truncate once the copy-up has answered u
TruncateApply(u, p, size) ==
    IF u.err # OK THEN u
    ELSE LET a == BTruncate(u.m.layers[1], p, size)
         IN  IF a.err = OK THEN Res(InvalidateCache(SetW(u.m, a.fs), p), OK)
             ELSE Res(u.m, a.err)

\* Truncate once findFile has answered f
TruncateFound(f, p, size) ==
    IF f.err # OK THEN Res(f.m, f.err)
    ELSE IF f.info.dir THEN Res(f.m, ErrInvalid)
    ELSE TruncateApply(copyUpIfLower(f, p), p, size)

\* absFSAdapter.Truncate
TruncateOp(m, p, size) ==
    IF ~cfg.writable THEN Res(m, ErrNoWritableLayer)
    ELSE TruncateFound(findFile(m, p), p, size)

\* ReadFile once findFile has answered f
ReadFileFound(f, p) ==
    IF f.err # OK THEN [m |-> f.m, err |-> f.err, data |-> <<>>]
    ELSE IF f.info.dir THEN [m |-> f.m, err |-> ErrInvalid, data |-> <<>>]
    ELSE IF ~Has(f.m.layers[f.layer + 1], p)
         THEN [m |-> f.m, err |-> ErrNotExist, data |-> <<>>]
    ELSE IF f.m.layers[f.layer + 1][p].dir
         THEN [m |-> f.m, err |-> ErrIO, data |-> <<>>]
    ELSE [m |-> f.m, err |-> OK, data |-> f.m.layers[f.layer + 1][p].data]

\* ReadFile: resolve, then read from the owning layer
ReadFileOp(m, p) == ReadFileFound(findFile(m, p), p)

-----------------------------------------------------------------------------
(* Directory listings: ReadDir of file_ops.go and unionDir.  A listed      *)
(* entry is [name, info, layer]: the layer it was taken from is kept next  *)
(* to what the os.FileInfo holds.                                          *)

\* the first byte of a token; no two tokens of the model share it
ByteOf(t) ==
    CASE t = ".wh." -> 46
      [] t = "B" -> 66
      [] t = "__dir_opaque" -> 95
      [] t = "a" -> 97
      [] t = "b" -> 98
      [] t = "d" -> 100
      [] t = "f" -> 102
      [] t = "g" -> 103

\* a < b on strings: byte by byte, a proper prefix first
RECURSIVE NameLess(_, _)
NameLess(a, b) ==
    IF b = <<>> THEN FALSE
    ELSE IF a = <<>> THEN TRUE
    ELSE IF ByteOf(a[1]) # ByteOf(b[1]) THEN ByteOf(a[1]) < ByteOf(b[1])
    ELSE NameLess(Tail(a), Tail(b))

\* strings.ToLower
ToLower(n) == [k \in 1..Len(n) |-> IF n[k] = "B" THEN "b" ELSE n[k]]

\* originalPath(whiteoutPath): the path a whiteout hides, and whether there
\* is one
originalPath(wp) ==
    IF ~HasPrefix(Base(wp), WhiteoutPrefix) THEN [path |-> Root, ok |-> FALSE]
    ELSE IF Tail(Base(wp)) = <<"__dir_opaque">> THEN [path |-> Root, ok |-> FALSE]
    ELSE [path |-> Join(Dir(wp), Tail(Base(wp))), ok |-> TRUE]

\* the names of a set in ascending byte order
RECURSIVE SortNames(_)
SortNames(S) ==
    IF S = {} THEN <<>>
    ELSE LET n == CHOOSE x \in S : \A y \in S \ {x} : NameLess(x, y)
         IN  <<n>> \o SortNames(S \ {n})

\* layer.fs.ReadDir(d), or Open(d) then Readdir(-1): the names d holds in the
\* backend, which lists them sorted by name
BReadDir(fs, d) == SortNames({ Base(q) : q \in Children(fs, d) })

\* the body of the loop over a layer's entries, for the entry named n of
\* layer i (Go index); acc is [seen, whiteouts, entries]
mergeEntry(acc, fs, d, n, i) ==
    IF isWhiteout(Join(d, n))
    THEN IF originalPath(Join(d, n)).ok
         THEN [acc EXCEPT !.whiteouts = @ \cup {Base(originalPath(Join(d, n)).path)}]
         ELSE acc
    ELSE IF isOpaqueWhiteout(Join(d, n)) THEN acc
    ELSE IF n \in acc.seen THEN acc
    ELSE IF n \in acc.whiteouts THEN acc
    ELSE [acc EXCEPT !.seen = @ \cup {n},
                     !.entries = Append(@, [name |-> n, info |-> InfoOf(fs[Join(d, n)]),
                                            layer |-> i])]

\* the loop over the entries of layer i, from the k-th on
RECURSIVE mergeLayer(_, _, _, _, _, _)
mergeLayer(acc, fs, d, names, k, i) ==
    IF k > Len(names) THEN acc
    ELSE mergeLayer(mergeEntry(acc, fs, d, names[k], i), fs, d, names, k + 1, i)

\* the loop over the layers, from layer i on: it ends after layer 0 when
\* isOpaque, and passes over a layer where d cannot be read as a directory
RECURSIVE mergeLayers(_, _, _, _, _)
mergeLayers(acc, ls, d, i, isOpaque) ==
    IF i >= Len(ls) THEN acc
    ELSE IF isOpaque /\ i > 0 THEN acc
    ELSE IF ~IsDirIn(ls[i + 1], d) THEN mergeLayers(acc, ls, d, i + 1, isOpaque)
    ELSE mergeLayers(mergeLayer(acc, ls[i + 1], d, BReadDir(ls[i + 1], d), 1, i),
                     ls, d, i + 1, isOpaque)

\* the opaque check: some layer holds the marker of d
isOpaqueDir(ls, d) == \E i \in 1..Len(ls) : Has(ls[i], Join(d, OpaqueWhiteout))

\* the less function handed to sort.Slice, on the names as they are
lessEntry_Raw(a, b) == NameLess(a.name, b.name)

\* the less function handed to sort.Slice
lessEntry(a, b) == NameLess(ToLower(a.name), ToLower(b.name))

\* sort.Slice on a short slice is an insertion sort: e moves left while it
\* is less than the entry before it
RECURSIVE insertSorted(_, _)
insertSorted(es, e) ==
    IF es = <<>> THEN <<e>>
    ELSE IF lessEntry(e, es[Len(es)])
    THEN Append(insertSorted(SubSeq(es, 1, Len(es) - 1), e), es[Len(es)])
    ELSE Append(es, e)

RECURSIVE sortSlice(_)
sortSlice(es) ==
    IF es = <<>> THEN <<>>
    ELSE insertSorted(sortSlice(SubSeq(es, 1, Len(es) - 1)), es[Len(es)])

NoEntries == [seen |-> {}, whiteouts |-> {}, entries |-> <<>>]

\* the merged, sorted listing of d
mergeDir(ls, d) == sortSlice(mergeLayers(NoEntries, ls, d, 0, isOpaqueDir(ls, d)).entries)

\* unionDir.loadEntries: the value d.entries is set to; nil is <<>>
loadEntries(m, d) == mergeDir(m.layers, d)

\* ReadDir once findFile has answered f
ReadDirFound(f, p) ==
    IF f.err # OK THEN [m |-> f.m, err |-> f.err, entries |-> <<>>]
    ELSE IF ~f.info.dir THEN [m |-> f.m, err |-> ErrInvalid, entries |-> <<>>]
    ELSE [m |-> f.m, err |-> OK, entries |-> mergeDir(f.m.layers, p)]

ReadDirOp(m, p) == ReadDirFound(findFile(m, p), p)

\* "if d.entries == nil { d.loadEntries() }" on the handle h; first and
\* snap record for the properties that the handle has read its listing and
\* what the first reading gave
loadIfNil(h, m) ==
    IF h.entries = <<>>
    THEN [h EXCEPT !.entries = loadEntries(m, h.path), !.loaded = TRUE,
                   !.snap = IF h.loaded THEN h.snap ELSE loadEntries(m, h.path)]
    ELSE h

\* unionDir.Readdir(count) once the entries are there: the handle after the
\* call, the entries returned and the error
ReaddirLoaded(h, count) ==
    IF h.pos >= Len(h.entries)
    THEN [h |-> h, result |-> <<>>, err |-> IF count > 0 THEN ErrEOF ELSE OK]
    ELSE IF count <= 0 \/ h.pos + count > Len(h.entries)
    THEN [h |-> [h EXCEPT !.pos = Len(h.entries)],
          result |-> SubSeq(h.entries, h.pos + 1, Len(h.entries)), err |-> OK]
    ELSE [h |-> [h EXCEPT !.pos = h.pos + count],
          result |-> SubSeq(h.entries, h.pos + 1, h.pos + count), err |-> OK]

ReaddirOp(h, m, count) == ReaddirLoaded(loadIfNil(h, m), count)

\* the end of unionDir.Seek: a negative offset becomes 0
SeekClamp(h, offset) == [h EXCEPT !.pos = IF offset < 0 THEN 0 ELSE offset]

SeekEnd(h, offset) == SeekClamp(h, Len(h.entries) + offset)

\* unionDir.Seek(offset, whence)
SeekOp(h, m, offset, whence) ==
    CASE whence = "SeekStart" -> SeekClamp(h, offset)
      [] whence = "SeekCurrent" -> SeekClamp(h, h.pos + offset)
      [] whence = "SeekEnd" -> SeekEnd(loadIfNil(h, m), offset)

\* unionDir.Readdir(count): a closed handle answers os.ErrClosed
ReaddirCall(h, m, count) ==
    IF ~h.open THEN [h |-> h, result |-> <<>>, err |-> ErrClosed]
    ELSE ReaddirOp(h, m, count)

\* unionDir.Seek(offset, whence): the handle after the call, the position
\* returned and the error
SeekCall(h, m, offset, whence) ==
    IF ~h.open THEN [h |-> h, pos |-> 0, err |-> ErrClosed]
    ELSE [h |-> SeekOp(h, m, offset, whence),
          pos |-> SeekOp(h, m, offset, whence).pos, err |-> OK]

-----------------------------------------------------------------------------
(* Construction: the layer stacks and options the engine starts from *)

pD == << <<"d">> >>
pDF == << <<"d">>, <<"f">> >>
pG == << <<"g">> >>

\* the paths the caller passes, and the new names it renames to
UserPaths == {pD, pDF}

RenameTargets == {pG}

\* a backend holding the files (content: the layer's index), the empty
\* marker files and the directories given
Tree(files, markers, dirs, i) ==
    [q \in {Root} \cup files \cup markers \cup dirs |->
        IF q \in files THEN FileEntry(<<i>>, 420)
        ELSE IF q \in markers THEN FileEntry(<<>>, 420)
        ELSE DirEntry(448)]

Stacks ==
    { \* an empty writable layer over two read-only layers holding /d/f
      << Tree({}, {}, {}, 0), Tree({pDF}, {}, {pD}, 1), Tree({pDF}, {}, {pD}, 2) >>,
      \* /d/f held by the writable layer and by the lower layer
      << Tree({pDF}, {}, {pD}, 0), Tree({pDF}, {}, {pD}, 1) >>,
      \* /d/f held by the writable layer only
      << Tree({pDF}, {}, {pD}, 0), Tree({}, {}, {}, 1) >>,
      \* an opaque marker in the root of the writable layer
      << Tree({}, {Join(Root, OpaqueWhiteout)}, {}, 0), Tree({pDF}, {}, {pD}, 1) >>,
      \* a whiteout held by a read-only layer
      << Tree({}, {}, {}, 0), Tree({}, {whiteoutPath(pDF)}, {pD}, 1),
         Tree({pDF}, {}, {pD}, 2) >>,
      \* an opaque marker held by a read-only layer
      << Tree({}, {}, {}, 0), Tree({}, {Join(pD, OpaqueWhiteout)}, {pD}, 1),
         Tree({pDF}, {}, {pD}, 2) >>,
      \* two layers holding nothing
      << Tree({}, {}, {}, 0), Tree({}, {}, {}, 1) >> }

\* WithStatCache(enabled, ttl)
WithStatCache(enabled, ttl) ==
    IF enabled
    THEN [enabled |-> TRUE, statTTL |-> ttl, negativeTTL |-> ttl \div 2, maxEntries |-> 1000]
    ELSE [enabled |-> FALSE, statTTL |-> 0, negativeTTL |-> 0, maxEntries |-> 0]

\* New(opts...): WithWritableLayer or not, WithStatCache, WithCopyBufferSize
Configs ==
    { [enabled |-> c.enabled, statTTL |-> c.statTTL, negativeTTL |-> c.negativeTTL,
       maxEntries |-> c.maxEntries, writable |-> w, copyBufferSize |-> 1] :
      c \in {WithStatCache(FALSE, 0), WithStatCache(TRUE, 1)}, w \in BOOLEAN }

NoHandle == [open |-> FALSE]

\* no caller has a call in flight
NoCalls == [of |-> <<>>, start |-> <<>>]

\* the UnionFS before New has applied an option
NotBuilt == [layers |-> <<>>, writableLayer |-> -1]

NoPre == [held |-> {}, vis |-> FALSE, owner |-> -1, data |-> <<>>, dir |-> FALSE]

\* the call made before a handle was opened
NoPrev == [op |-> "New", path |-> Root, err |-> OK, vis |-> FALSE]

NoCall == [op |-> "New", path |-> Root, path2 |-> Root, flag |-> {}, err |-> OK,
           data |-> <<>>, pre |-> NoPre, prev |-> NoPrev, pos |-> 0]

Init ==
    /\ cfg \in Configs
    /\ layers \in IF cfg.writable THEN Stacks ELSE { Tail(s) : s \in Stacks }
    /\ cache = EmptyCache
    /\ now = 0
    /\ fh = NoHandle
    /\ nops = 0
    /\ nreads = 0
    /\ last = NoCall
    /\ calls = NoCalls
    /\ built = NotBuilt

-----------------------------------------------------------------------------
(* The calls *)

Engine == [layers |-> layers, cache |-> cache]

\* what the layers hold of p before a call, and what the engine shows of it
Pre(p) ==
    LET c == Candidates(layers, p)
        o == IF c = {} THEN -1 ELSE Min(c)
    IN  [held |-> { i \in 0..(Len(layers) - 1) : Has(layers[i + 1], p) },
         vis |-> findFile(Engine, p).err = OK,
         owner |-> o,
         data |-> IF o >= 0 THEN layers[o + 1][p].data ELSE <<>>,
         dir |-> o >= 0 /\ layers[o + 1][p].dir]

Commit(m) ==
    /\ layers' = m.layers
    /\ cache' = m.cache

\* a mutating call: counted, and made while the caller holds no handle
Mutation(op, p, p2, r) ==
    /\ fh = NoHandle
    /\ nops < MaxOps
    /\ nops' = nops + 1
    /\ Commit(r.m)
    /\ last' = [NoCall EXCEPT !.op = op, !.path = p, !.path2 = p2, !.err = r.err,
                              !.pre = Pre(p)]
    /\ UNCHANGED <<now, cfg, fh, nreads, calls, built>>

\* a reading call: it changes the cache only
Reading(op, m) ==
    /\ nreads < MaxReads
    /\ nreads' = nreads + 1
    /\ Commit(m)
    /\ last' = [NoCall EXCEPT !.op = op]
    /\ UNCHANGED <<now, cfg, nops, calls, built>>

Stat(p) == Reading("Stat", findFile(Engine, p).m) /\ UNCHANGED fh

ReadFile(p) == Reading("ReadFile", ReadFileOp(Engine, p).m) /\ UNCHANGED fh

ReadDir(p) == Reading("ReadDir", ReadDirOp(Engine, p).m) /\ UNCHANGED fh

Handle(p, flag, layer, dir, pre) ==
    [open |-> TRUE, path |-> p, flag |-> flag, layer |-> layer, dir |-> dir,
     pos |-> 0, written |-> <<>>, pre |-> pre,
     entries |-> <<>>, loaded |-> FALSE, snap |-> <<>>,
     prev |-> [op |-> last.op, path |-> last.path, err |-> last.err,
               vis |-> last.pre.vis]]

\* the write branch of OpenFile answered r: the call is counted, and the
\* caller holds a handle on the writable layer when it succeeded
OpenedForWrite(p, flag, r, pre) ==
    /\ nops < MaxOps
    /\ nops' = nops + 1
    /\ Commit(r.m)
    /\ fh' = IF r.err = OK THEN Handle(p, flag, 0, FALSE, pre) ELSE NoHandle
    /\ last' = [NoCall EXCEPT !.op = "OpenFile", !.path = p, !.flag = flag,
                              !.err = r.err, !.pre = pre]
    /\ UNCHANGED <<now, cfg, nreads, calls, built>>

\* the read branch of OpenFile answered r
OpenedForRead(p, flag, r) ==
    /\ Reading("Open", r.m)
    /\ fh' = IF r.err = OK THEN Handle(p, flag, r.layer, r.dir, NoPre)
             ELSE NoHandle

OpenFile(p, flag, perm) ==
    /\ fh = NoHandle
    /\ IF IsWriteFlag(flag)
       THEN OpenedForWrite(p, flag, OpenFileWrite(Engine, p, flag, perm), Pre(p))
       ELSE OpenedForRead(p, flag, OpenFileRead(Engine, p))

\* Create(name) is OpenFile(name, O_RDWR|O_CREATE|O_TRUNC, 0666)
Create(p) == OpenFile(p, {"RDWR", "CREATE", "TRUNC"}, 438)

\* Write on the handle of a file opened for writing: one byte at the handle's
\* position, or at the end of the file under O_APPEND
HandleWrite(b) ==
    /\ fh.open
    /\ ~fh.dir
    /\ fh.flag \cap {"WRONLY", "RDWR"} # {}
    /\ Has(layers[1], fh.path)
    /\ LET cur == layers[1][fh.path].data
           at == IF "APPEND" \in fh.flag THEN Len(cur) ELSE fh.pos
           new == [k \in 1..(IF at + 1 > Len(cur) THEN at + 1 ELSE Len(cur)) |->
                      IF k = at + 1 THEN b ELSE IF k <= Len(cur) THEN cur[k] ELSE 0]
       IN  /\ at < MaxLen
           /\ layers' = [layers EXCEPT ![1] = Put(@, fh.path, [@[fh.path] EXCEPT !.data = new])]
           /\ fh' = [fh EXCEPT !.pos = at + 1, !.written = Append(@, b)]
           /\ last' = [NoCall EXCEPT !.op = "Write", !.path = fh.path]
    /\ UNCHANGED <<cache, now, cfg, nops, nreads, calls, built>>

HandleClose ==
    /\ fh.open
    /\ fh' = NoHandle
    /\ last' = [NoCall EXCEPT !.op = "Close", !.path = fh.path, !.flag = fh.flag,
                              !.data = fh.written, !.pre = fh.pre,
                              !.prev = fh.prev]
    /\ UNCHANGED <<layers, cache, now, cfg, nops, nreads, calls, built>>

\* Close on the handle of a directory that the caller keeps: d.closed = true
HandleCloseKept ==
    /\ fh.open
    /\ fh.dir
    /\ fh' = [fh EXCEPT !.open = FALSE]
    /\ last' = [NoCall EXCEPT !.op = "Close", !.path = fh.path]
    /\ UNCHANGED <<layers, cache, now, cfg, nops, nreads, calls, built>>

\* Readdir(count) on the handle of a directory
HandleReaddir(count) ==
    /\ fh # NoHandle
    /\ fh.dir
    /\ fh' = ReaddirCall(fh, Engine, count).h
    /\ last' = [NoCall EXCEPT !.op = "Readdir", !.path = fh.path,
                              !.err = ReaddirCall(fh, Engine, count).err,
                              !.data = ReaddirCall(fh, Engine, count).result]
    /\ UNCHANGED <<layers, cache, now, cfg, nops, nreads, calls, built>>

\* Seek(offset, whence) on the handle of a directory
HandleSeek(offset, whence) ==
    /\ fh # NoHandle
    /\ fh.dir
    /\ SeekCall(fh, Engine, offset, whence).pos <= MaxPos
    /\ fh' = SeekCall(fh, Engine, offset, whence).h
    /\ last' = [NoCall EXCEPT !.op = "Seek", !.path = fh.path,
                              !.err = SeekCall(fh, Engine, offset, whence).err,
                              !.pos = SeekCall(fh, Engine, offset, whence).pos]
    /\ UNCHANGED <<layers, cache, now, cfg, nops, nreads, calls, built>>

\* a mutating call made while the caller holds the handle of a directory
Beside(op, p, r) ==
    /\ fh.open
    /\ fh.dir
    /\ nops < MaxOps
    /\ nops' = nops + 1
    /\ Commit(r.m)
    /\ last' = [NoCall EXCEPT !.op = op, !.path = p, !.err = r.err, !.pre = Pre(p)]
    /\ UNCHANGED <<now, cfg, fh, nreads, calls, built>>

Mkdir(p, perm) == Mutation("Mkdir", p, Root, MkdirOp(Engine, p, perm))

MkdirAll(p, perm) == Mutation("MkdirAll", p, Root, MkdirAllOp(Engine, p, perm))

Remove(p) == Mutation("Remove", p, Root, RemoveOp(Engine, p))

RemoveAll(p) == Mutation("RemoveAll", p, Root, RemoveAllOp(Engine, p))

Rename(old, new) == Mutation("Rename", old, new, RenameOp(Engine, old, new))

Chmod(p, mode) == Mutation("Chmod", p, Root, ChmodOp(Engine, p, mode))

Chown(p, uid) == Mutation("Chown", p, Root, ChownOp(Engine, p, uid))

Chtimes(p, mtime) == Mutation("Chtimes", p, Root, ChtimesOp(Engine, p, mtime))

Truncate(p, size) == Mutation("Truncate", p, Root, TruncateOp(Engine, p, size))

Symlink(old, new) == Mutation("Symlink", new, old, SymlinkOp(Engine, old, new))

Lchown(p, uid) == Mutation("Lchown", p, Root, LchownOp(Engine, p, uid))

\* time passes; only an enabled cache reads the clock
Tick ==
    /\ cfg.enabled
    /\ now < MaxClock
    /\ now' = now + 1
    /\ UNCHANGED <<layers, cache, cfg, fh, nops, nreads, last, calls, built>>

OpenFlags == { {}, {"WRONLY"}, {"WRONLY", "CREATE", "TRUNC"}, {"WRONLY", "CREATE", "EXCL"} }

Bytes == {7}

Next ==
    \/ \E p \in UserPaths : Stat(p)
    \/ \E p \in UserPaths : ReadFile(p)
    \/ \E p \in UserPaths : ReadDir(p)
    \/ \E p \in UserPaths, flag \in OpenFlags : OpenFile(p, flag, 420)
    \/ \E p \in UserPaths : Create(p)
    \/ \E b \in Bytes : HandleWrite(b)
    \/ HandleClose
    \/ \E p \in UserPaths : Mkdir(p, 493)
    \/ \E p \in UserPaths : MkdirAll(p, 493)
    \/ \E p \in UserPaths : Remove(p)
    \/ \E p \in UserPaths : RemoveAll(p)
    \/ \E old \in UserPaths, new \in RenameTargets : Rename(old, new)
    \/ \E p \in UserPaths : Chmod(p, 384)
    \/ \E p \in UserPaths : Chown(p, 1)
    \/ \E p \in UserPaths : Chtimes(p, 1)
    \/ \E p \in UserPaths : Truncate(p, 0)
    \/ \E new \in RenameTargets \cup {pDF} : Symlink(pD, new)
    \/ \E p \in UserPaths : Lchown(p, 1)
    \/ Tick

Spec == Init /\ [][Next]_vars

-----------------------------------------------------------------------------
(* Concurrency: two callers share the engine, each making one call.  A call *)
(* is taken in the steps between which the code holds no lock that keeps   *)
(* the other caller out: findFile's scan of the layers and its cache       *)
(* insertion, a mutation's lookup and its backend calls, the write         *)
(* branch's invalidation and the backend's OpenFile.                       *)

Callers == {"a", "b"}

\* what a lookup leaves in the locals info, layerIdx and err
Found(f) == [info |-> f.info, layer |-> f.layer, err |-> f.err]

\* a caller's call: its position, the call and its path, the locals of its
\* lookup, and the error it returned once pc is "done"
Call(pc, op, p, f, err) == [pc |-> pc, op |-> op, path |-> p, f |-> Found(f), err |-> err]

Idle == Call("idle", "", Root, [info |-> NoInfo, layer |-> -1, err |-> OK], OK)

InitConc ==
    /\ cfg \in { c \in Configs : c.writable }
    /\ layers \in Stacks
    /\ cache = EmptyCache
    /\ now = 0
    /\ fh = NoHandle
    /\ nops = 0
    /\ nreads = 0
    /\ last = NoCall
    /\ calls = [of |-> [c \in Callers |-> Idle], start |-> layers]
    /\ built = NotBuilt

\* caller c moves to the position and locals of rec, the engine to m
Step(c, rec, m) ==
    /\ calls' = [calls EXCEPT !.of[c] = rec]
    /\ Commit(m)
    /\ UNCHANGED <<now, cfg, fh, nops, nreads, last, built>>

\* caller c returns what the step r returned
Finish(c, r) == Step(c, [calls.of[c] EXCEPT !.pc = "done", !.err = r.err], r.m)

\* Stat(p) up to the end of findFile's loop: a cache hit returns at once,
\* otherwise the layers are scanned and the answer is still to be cached
StatScan(c, p) ==
    /\ calls.of[c].pc = "idle"
    /\ IF getStatHit(cache, p) \/ isNegative(cache, p)
       THEN Step(c, Call("done", "Stat", p, findFile(Engine, p), findFile(Engine, p).err),
                 Engine)
       ELSE Step(c, Call("put", "Stat", p,
                         findInLayers(Engine, p, Candidates(layers, p)), OK), Engine)

\* cache.putStat or cache.putNegative with what the scan found, and return
StatPut(c) ==
    /\ calls.of[c].pc = "put"
    /\ Finish(c, Res([Engine EXCEPT !.cache =
                          IF calls.of[c].f.err = OK
                          THEN putStat(cache, calls.of[c].path, calls.of[c].f.info,
                                       calls.of[c].f.layer)
                          ELSE putNegative(cache, calls.of[c].path)],
                     calls.of[c].f.err))

\* the findFile a Remove or a Chmod starts with
Find(c, op, p) ==
    /\ calls.of[c].pc = "idle"
    /\ Step(c, Call("apply", op, p, findFile(Engine, p), OK), findFile(Engine, p).m)

\* the rest of Remove or Chmod once findFile has answered f
ApplyFound(op, f, p) ==
    CASE op = "Remove" -> RemoveFound(f, p)
      [] op = "Chmod" -> MetaFound(f, p, "Chmod", 384)

\* the rest of the call, on the engine as it is now and with the locals the
\* lookup left
Apply(c) ==
    /\ calls.of[c].pc = "apply"
    /\ Finish(c, ApplyFound(calls.of[c].op,
                            [info |-> calls.of[c].f.info, layer |-> calls.of[c].f.layer,
                             err |-> calls.of[c].f.err, m |-> Engine],
                            calls.of[c].path))

\* Create(p) up to its InvalidateCache
OpenPrepare(c, p) ==
    /\ calls.of[c].pc = "idle"
    /\ Step(c, Call(IF OpenFilePrepare(Engine, p).err = OK THEN "open" ELSE "done",
                    "Create", p, Idle.f, OpenFilePrepare(Engine, p).err),
            OpenFilePrepare(Engine, p).m)

\* layer.fs.OpenFile(name, flag, perm), and return
OpenBackend(c) ==
    /\ calls.of[c].pc = "open"
    /\ Finish(c, Res(SetW(Engine, BCreate(layers[1], calls.of[c].path).fs),
                     BCreate(layers[1], calls.of[c].path).err))

NextConc ==
    \/ \E c \in Callers, p \in UserPaths : StatScan(c, p)
    \/ \E c \in Callers : StatPut(c)
    \/ \E c \in Callers, p \in UserPaths : Find(c, "Remove", p)
    \/ \E c \in Callers, p \in UserPaths : Find(c, "Chmod", p)
    \/ \E c \in Callers : Apply(c)
    \/ \E c \in Callers, p \in UserPaths : OpenPrepare(c, p)
    \/ \E c \in Callers : OpenBackend(c)

SpecConc == InitConc /\ [][NextConc]_vars

-----------------------------------------------------------------------------
(* Construction: New applies its options in order.  built.layers is        *)
(* ufs.layers, each Layer with the backend it wraps and a number standing  *)
(* for its address, the order of its creation; built.writableLayer is the  *)
(* Layer ufs.writableLayer points to, -1 for nil.                          *)

\* the backends handed to the options
Backends == {"x", "y"}

\* &Layer{fs: fs, readOnly: readOnly}, the next Layer created
NewLayer(fs, readOnly) == [fs |-> fs, readOnly |-> readOnly, id |-> Len(built.layers) + 1]

InitNew ==
    /\ cfg \in { c \in Configs : c.writable }
    /\ layers = <<>>
    /\ cache = EmptyCache
    /\ now = 0
    /\ fh = NoHandle
    /\ nops = 0
    /\ nreads = 0
    /\ last = NoCall
    /\ calls = NoCalls
    /\ built = NotBuilt

\* the option WithWritableLayer(fs) applied
WithWritableLayer(fs) ==
    /\ Len(built.layers) < MaxOpts
    /\ built' = [layers |-> <<NewLayer(fs, FALSE)>> \o built.layers,
                 writableLayer |-> NewLayer(fs, FALSE).id]
    /\ UNCHANGED <<layers, cache, now, cfg, fh, nops, nreads, last, calls>>

\* the option WithReadOnlyLayer(fs) applied
WithReadOnlyLayer(fs) ==
    /\ Len(built.layers) < MaxOpts
    /\ built' = [built EXCEPT !.layers = Append(@, NewLayer(fs, TRUE))]
    /\ UNCHANGED <<layers, cache, now, cfg, fh, nops, nreads, last, calls>>

NextNew ==
    \/ \E fs \in Backends : WithWritableLayer(fs)
    \/ \E fs \in Backends : WithReadOnlyLayer(fs)

SpecNew == InitNew /\ [][NextNew]_vars

-----------------------------------------------------------------------------
(* The cache alone: its methods called in any order on a cache built by    *)
(* WithCacheConfig                                                         *)

\* WithCacheConfig(enabled, statTTL, negativeTTL, maxEntries): newCache takes
\* the four values as they are
WithCacheConfig(enabled, statTTL, negativeTTL, maxEntries) ==
    [enabled |-> enabled, statTTL |-> statTTL, negativeTTL |-> negativeTTL,
     maxEntries |-> maxEntries, writable |-> TRUE, copyBufferSize |-> 1]

\* "/d2": no path below /d, and a string that starts with "/d"
pD2 == << <<"d", "2">> >>

\* the paths the cache is asked to hold
CachePaths == {pD, pDF, pD2, pG}

InitCache ==
    /\ cfg \in { WithCacheConfig(TRUE, ttl, ttl, M) : ttl \in {0, 1}, M \in 0..MaxEntries }
    /\ layers = <<>>
    /\ cache = EmptyCache
    /\ now = 0
    /\ fh = NoHandle
    /\ nops = 0
    /\ nreads = 0
    /\ last = NoCall
    /\ calls = NoCalls
    /\ built = NotBuilt

\* the method op of the cache was called with p and left the cache c;
\* last.pre.held keeps the paths the two maps held before the call
CacheCall(op, p, c) ==
    /\ cache' = c
    /\ last' = [NoCall EXCEPT !.op = op, !.path = p,
                              !.pre = [NoPre EXCEPT !.held = DOMAIN cache.stat
                                                             \cup DOMAIN cache.neg]]
    /\ UNCHANGED <<layers, now, cfg, fh, nops, nreads, calls, built>>

NextCache ==
    \/ \E p \in CachePaths : CacheCall("putStat", p, putStat(cache, p, NoInfo, 0))
    \/ \E p \in CachePaths : CacheCall("putNegative", p, putNegative(cache, p))
    \/ \E p \in CachePaths : CacheCall("invalidate", p, invalidate(cache, p))
    \/ \E p \in CachePaths : CacheCall("invalidateTree", p, invalidateTree(cache, p))
    \/ CacheCall("clear", Root, clear(cache))
    \/ Tick

SpecCache == InitCache /\ [][NextCache]_vars

-----------------------------------------------------------------------------
(* Directories: the engine over stacks whose layers hold several names in  *)
(* /d, listed through ReadDir and through the handle of an open directory  *)

pDA == << <<"d">>, <<"a">> >>
pDB == << <<"d">>, <<"B">> >>

DirStacks ==
    { \* /d held by three layers, /d/a by both lower ones
      << Tree({pDF}, {}, {pD}, 0), Tree({pDA, pDB}, {}, {pD}, 1),
         Tree({pDA, pDF}, {}, {pD}, 2) >>,
      \* a whiteout of /d/a in the writable layer
      << Tree({}, {whiteoutPath(pDA)}, {pD}, 0), Tree({pDA, pDB}, {}, {pD}, 1) >>,
      \* /d made opaque by a read-only layer that holds /d/B
      << Tree({}, {}, {pD}, 0), Tree({pDB}, {Join(pD, OpaqueWhiteout)}, {pD}, 1),
         Tree({pDA}, {}, {pD}, 2) >>,
      \* /d made opaque by the writable layer
      << Tree({pDF}, {Join(pD, OpaqueWhiteout)}, {pD}, 0), Tree({pDA}, {}, {pD}, 1) >>,
      \* /d empty
      << Tree({}, {}, {pD}, 0), Tree({}, {}, {}, 1) >> }

\* the directories listed
DirPaths == {Root, pD}

Whence == {"SeekStart", "SeekCurrent", "SeekEnd"}

InitDir ==
    /\ cfg \in { c \in Configs : c.writable }
    /\ layers \in DirStacks
    /\ cache = EmptyCache
    /\ now = 0
    /\ fh = NoHandle
    /\ nops = 0
    /\ nreads = 0
    /\ last = NoCall
    /\ calls = NoCalls
    /\ built = NotBuilt

NextDir ==
    \/ \E p \in DirPaths : ReadDir(p)
    \/ \E p \in DirPaths : OpenFile(p, {}, 0)
    \/ \E count \in {-1, 1} : HandleReaddir(count)
    \/ \E offset \in {-1, 0, 2}, whence \in Whence : HandleSeek(offset, whence)
    \/ HandleClose
    \/ HandleCloseKept
    \/ \E p \in {pDA, pDF} : Mkdir(p, 493)
    \/ \E p \in {pD, pDA} : Remove(p)
    \/ \E p \in {pDA, pDF} : Beside("Mkdir", p, MkdirOp(Engine, p, 493))
    \/ \E p \in {pD, pDA} : Beside("Remove", p, RemoveOp(Engine, p))
    \/ Tick

SpecDir == InitDir /\ [][NextDir]_vars

TypeOK ==
    /\ now \in 0..MaxClock
    /\ nops \in 0..MaxOps
    /\ nreads \in 0..MaxReads
    /\ cfg \in Configs
    /\ \A i \in 1..Len(layers) : Has(layers[i], Root)

-----------------------------------------------------------------------------
(* What the claims speak of *)

\* the paths the properties range over: those a caller names and those held
CheckPaths == UserPaths \cup RenameTargets \cup UNION { DOMAIN layers[i] : i \in 1..Len(layers) }

\* the lower layers, as Go indices
Lower == 1..(Len(layers) - 1)

NoCacheEntry(p) == p \notin DOMAIN cache.stat /\ p \notin DOMAIN cache.neg

\* what Stat(p) and ReadFile(p) would return now
StatNow(p) == findFile(Engine, p)

ReadNow(p) == ReadFileOp(Engine, p)

Succeeded(ops) == last.op \in ops /\ last.err = OK

WriteOpened == last.op = "OpenFile" /\ IsWriteFlag(last.flag) /\ last.err = OK

\* layer i is hidden for p as the claim words it: a whiteout of p, or an
\* opaque marker in an ancestor directory of p, the root included, in a
\* layer above i
HiddenByClaim(p, i) ==
    \E j \in 0..(i - 1) :
        \/ Has(layers[j + 1], whiteoutPath(p))
        \/ \E k \in 0..(Len(p) - 1) : Has(layers[j + 1], Join(SubSeq(p, 1, k), OpaqueWhiteout))

OwnersByClaim(p) ==
    { i \in 0..(Len(layers) - 1) : Has(layers[i + 1], p) /\ ~HiddenByClaim(p, i) }

\* C1: with no cache entry for P, Stat(P) returns the info of the lowest
\* layer that holds P and is not hidden by a whiteout of P or by an opaque
\* marker in an ancestor of P (the root included) above it, and not-found
\* when there is no such layer
C1_Precedence ==
    \A p \in CheckPaths :
        NoCacheEntry(p) =>
            IF OwnersByClaim(p) = {}
            THEN StatNow(p).err = ErrNotExist
            ELSE /\ StatNow(p).err = OK
                 /\ StatNow(p).layer = Min(OwnersByClaim(p))
                 /\ StatNow(p).info = InfoOf(layers[Min(OwnersByClaim(p)) + 1][p])

\* C2: no call, succeeding or failing, changes a read-only layer: only the
\* writable layer (when there is one) is ever written
C2_Isolation ==
    [][ /\ Len(layers') = Len(layers)
        /\ \A i \in 1..Len(layers) : (i > 1 \/ ~cfg.writable) => layers'[i] = layers[i] ]_vars

\* a copy-up has happened: the writable layer now holds what a lower layer owned
C2_Witness ==
    /\ Succeeded({"Chmod", "Truncate", "Rename"})
    /\ last.pre.owner > 0
    /\ 0 \notin last.pre.held
    /\ \E p \in DOMAIN layers[1] : ~layers[1][p].dir /\ layers[1][p].data = <<1>>

\* C3: after a successful mutation touching P no cache entry, positive or
\* negative, for P or a descendant of P survives
C3_CacheCoherence ==
    \/ Succeeded({"Mkdir", "MkdirAll", "Remove", "RemoveAll", "Rename", "Chmod",
                  "Chown", "Chtimes", "Truncate"})
    \/ WriteOpened
    \/ last.op = "Write"
    => \A q \in DOMAIN cache.stat \cup DOMAIN cache.neg :
           /\ ~IsUnder(q, last.path)
           /\ last.op = "Rename" => ~IsUnder(q, last.path2)

\* C4: after a successful Remove(P), Stat(P) is not-found; when a lower
\* layer held P the writable layer holds the whiteout of P and the lower
\* layer still holds P
C4_RemoveHides ==
    Succeeded({"Remove"}) =>
        /\ StatNow(last.path).err = ErrNotExist
        /\ \A i \in Lower : i \in last.pre.held =>
               /\ Has(layers[1], whiteoutPath(last.path))
               /\ Has(layers[i + 1], last.path)

\* C5: after a successful RemoveAll(P) of a visible P, Stat(P) is not-found
C5_RemoveAllHides ==
    Succeeded({"RemoveAll"}) /\ last.pre.vis => StatNow(last.path).err = ErrNotExist

\* C6: the whiteout RemoveAll(D) creates for a directory D of a lower layer
\* hides every descendant of D the lower layers hold
C6_WhiteoutMasksSubtree ==
    /\ Succeeded({"RemoveAll"})
    /\ last.pre.dir
    /\ Has(layers[1], whiteoutPath(last.path))
    => \A i \in Lower : \A q \in DOMAIN layers[i + 1] :
           IsUnder(q, last.path) /\ q # last.path => StatNow(q).err = ErrNotExist

\* C7: a file opened with O_WRONLY|O_CREATE|O_TRUNC, written and closed reads
\* back through the union as exactly what was written
C7_WriteReadRoundTrip ==
    last.op = "Close" /\ last.flag = {"WRONLY", "CREATE", "TRUNC"} =>
        /\ ReadNow(last.path).err = OK
        /\ ReadNow(last.path).data = last.data

\* a byte was written over a file only a lower layer held, with the cache on
C7_Witness ==
    /\ last.op = "Close"
    /\ last.flag = {"WRONLY", "CREATE", "TRUNC"}
    /\ last.data = <<7>>
    /\ last.pre.owner > 0
    /\ cfg.enabled
    /\ ReadNow(last.path).data = <<7>>

C9_RenameHidesOld ==
    Succeeded({"Rename"}) /\ last.pre.vis => StatNow(last.path).err = ErrNotExist

\* C10: after a successful Rename(old, new) of a regular file a lower layer
\* owned, new reads as the content old had, the lower layer holds old as
\* before, and the writable layer holds new and the whiteout of old
C10_RenameAcrossLayers ==
    Succeeded({"Rename"}) /\ last.pre.owner > 0 /\ ~last.pre.dir =>
        /\ ReadNow(last.path2).err = OK
        /\ ReadNow(last.path2).data = last.pre.data
        /\ Has(layers[last.pre.owner + 1], last.path)
        /\ layers[last.pre.owner + 1][last.path].data = last.pre.data
        /\ Has(layers[1], last.path2)
        /\ Has(layers[1], whiteoutPath(last.path))

\* /d/f of layer 1 was renamed to /g
C10_Witness ==
    /\ Succeeded({"Rename"})
    /\ last.pre.owner = 1
    /\ ~last.pre.dir
    /\ last.path = pDF
    /\ ReadNow(pG).data = <<1>>
    /\ Has(layers[1], whiteoutPath(pDF))

\* C11: with no writable layer every mutating call fails with the
\* no-writable-layer error, whether or not its path exists, hands out no
\* handle and changes no layer; Stat, a read-only Open, ReadFile and ReadDir
\* still answer for every path a layer holds unhidden
C11_NoWritableLayer ==
    [][ ~cfg.writable =>
            /\ layers' = layers
            /\ nops' # nops => last'.err = ErrNoWritableLayer /\ fh' = NoHandle
            /\ \A p \in CheckPaths : Candidates(layers, p) # {} =>
                   /\ StatNow(p).err = OK
                   /\ OpenFileRead(Engine, p).err = OK
                   /\ ~StatNow(p).info.dir => ReadNow(p).err = OK
                   /\ StatNow(p).info.dir => ReadDirOp(Engine, p).err = OK ]_vars

\* Lchown of a path a layer holds, and Symlink at a name no layer holds,
\* were refused for want of a writable layer
C11_Witness ==
    /\ ~cfg.writable
    /\ last.err = ErrNoWritableLayer
    /\ \/ last.op = "Lchown" /\ last.pre.vis
       \/ last.op = "Symlink" /\ ~last.pre.vis
    /\ StatNow(pDF).err = OK

\* C12: when Remove(P) of a visible P succeeded and the next call, Create(P),
\* succeeded, then once Y is written and the handle closed, P reads as
\* exactly Y and the writable layer holds no whiteout of P
C12_RemoveThenCreate ==
    /\ last.op = "Close"
    /\ last.flag = {"RDWR", "CREATE", "TRUNC"}
    /\ last.prev.op = "Remove" /\ last.prev.err = OK
    /\ last.prev.path = last.path /\ last.prev.vis
    => /\ ReadNow(last.path).err = OK
       /\ ReadNow(last.path).data = last.data
       /\ ~Has(layers[1], whiteoutPath(last.path))

\* /d/f of a lower layer was removed, created again and written
C12_Witness ==
    /\ last.op = "Close"
    /\ last.flag = {"RDWR", "CREATE", "TRUNC"}
    /\ last.prev.op = "Remove" /\ last.prev.err = OK
    /\ last.prev.path = pDF /\ last.path = pDF /\ last.prev.vis
    /\ last.pre.held # {} /\ 0 \notin last.pre.held
    /\ last.data = <<7>>
    /\ ReadNow(pDF).data = <<7>>

\* the names of a listing
NamesOf(es) == { es[k].name : k \in 1..Len(es) }

\* the largest Go index of a layer holding the opaque marker of D, -1 when
\* none holds it
OpaqueIndex(D) ==
    LET held == { i \in 0..(Len(layers) - 1) : Has(layers[i + 1], Join(D, OpaqueWhiteout)) }
    IN  IF held = {} THEN -1 ELSE CHOOSE i \in held : \A j \in held : j <= i

\* the layers whose entries of D are merged: all of them, or 0..O
ProcessedByClaim(D) ==
    IF OpaqueIndex(D) < 0 THEN 0..(Len(layers) - 1) ELSE 0..OpaqueIndex(D)

\* layer i gives the entry n of D: it is processed, holds D/n, and no layer
\* above it holds the whiteout of D/n
GivesEntry(D, n, i) ==
    /\ i \in ProcessedByClaim(D)
    /\ IsDirIn(layers[i + 1], D)
    /\ Has(layers[i + 1], Join(D, n))
    /\ \A j \in 0..(i - 1) : ~Has(layers[j + 1], whiteoutPath(Join(D, n)))

\* the names the merged listing of D holds
ExpectedNames(D) ==
    { n \in UNION { { Base(q) : q \in Children(layers[i], D) } : i \in 1..Len(layers) } :
        /\ ~HasPrefix(n, WhiteoutPrefix)
        /\ \E i \in 0..(Len(layers) - 1) : GivesEntry(D, n, i) }

\* the listing es of D is the merge the claims describe
IsMergeOf(es, D) ==
    /\ Cardinality(NamesOf(es)) = Len(es)
    /\ NamesOf(es) = ExpectedNames(D)
    /\ \A k \in 1..Len(es) :
           /\ GivesEntry(D, es[k].name, es[k].layer)
           /\ \A i \in 0..(es[k].layer - 1) : ~GivesEntry(D, es[k].name, i)

\* the handle has read its listing, and no call has changed a layer since
\* the engine was built
FreshlyLoaded == fh.open /\ fh.dir /\ fh.loaded /\ nops = 0

\* C13: the listing of a directory no layer marks opaque, from ReadDir or
\* from a handle, holds every name once, and exactly the names, whiteouts
\* and markers excepted, that some layer holds in the directory with no
\* whiteout of the name in a layer above it, each taken from the topmost
\* such layer
C13_DirectoryMerge ==
    /\ \A D \in DirPaths :
           ReadDirOp(Engine, D).err = OK /\ ~isOpaqueDir(layers, D) =>
               IsMergeOf(ReadDirOp(Engine, D).entries, D)
    /\ FreshlyLoaded /\ ~isOpaqueDir(layers, fh.path) => IsMergeOf(fh.entries, fh.path)

\* C14: the listing of a directory whose opaque marker is held by layer O at
\* the lowest merges the layers 0..O and nothing of the layers below O
C14_OpaqueDirectory ==
    /\ \A D \in DirPaths :
           ReadDirOp(Engine, D).err = OK /\ isOpaqueDir(layers, D) =>
               IsMergeOf(ReadDirOp(Engine, D).entries, D)
    /\ FreshlyLoaded /\ isOpaqueDir(layers, fh.path) => IsMergeOf(fh.entries, fh.path)

\* es is in ascending order of lower-cased name
SortedByLower(es) ==
    \A k \in 1..(Len(es) - 1) :
        ~NameLess(ToLower(es[k + 1].name), ToLower(es[k].name))

\* C15: what ReadDir returns, what a directory handle holds and what its
\* Readdir returns are in ascending order of lower-cased name
C15_SortedListing ==
    /\ \A D \in DirPaths : SortedByLower(ReadDirOp(Engine, D).entries)
    /\ fh.open /\ fh.dir => SortedByLower(fh.entries)
    /\ last.op = "Readdir" => SortedByLower(last.data)

\* a handle on /d returned a, B and f in this order
C15_Witness ==
    /\ last.op = "Readdir"
    /\ last.path = pD
    /\ [k \in 1..Len(last.data) |-> last.data[k].name] = << <<"a">>, <<"B">>, <<"f">> >>
    /\ [k \in 1..3 |-> ReadDirOp(Engine, pD).entries[k].layer] = <<1, 1, 0>>

\* C16: once a directory handle has read its listing, every later Readdir
\* and Seek on it works on the list of that first reading, whatever the
\* engine has done to the directory since
C16_HandleSnapshot ==
    [][ fh.open /\ fh.dir /\ fh.loaded /\ fh'.open =>
            /\ fh'.entries = fh.snap
            /\ last'.op = "Readdir" /\ (last' # last \/ fh' # fh) =>
                   last'.data = SubSeq(fh.snap, fh.pos + 1, fh'.pos) ]_vars

\* the calls that change the union
Mutations == {"Remove", "Chmod", "Create"}

\* what the layers hold of p for the union, no cache asked
Uncached(ls, p) ==
    IF Candidates(ls, p) = {} THEN [err |-> ErrNotExist, layer |-> -1, entry |-> <<>>]
    ELSE [err |-> OK, layer |-> Min(Candidates(ls, p)),
          entry |-> ls[Min(Candidates(ls, p)) + 1][p]]

\* C17: once a caller's mutation of P has returned success, and the other
\* caller makes no mutation, a Stat(P) that starts now answers from the
\* layers as they are: no lookup that was in flight has left an older
\* answer in the cache
C17_InvalidationOrdering ==
    \A c \in Callers : \A d \in Callers \ {c} :
        /\ calls.of[c].pc = "done"
        /\ calls.of[c].op \in Mutations
        /\ calls.of[c].err = OK
        /\ calls.of[d].op \notin Mutations
        => /\ StatNow(calls.of[c].path).err = Uncached(layers, calls.of[c].path).err
           /\ StatNow(calls.of[c].path).layer = Uncached(layers, calls.of[c].path).layer

\* the call of caller c made alone on the engine m
SerialCall(c, m) ==
    CASE calls.of[c].op = "Remove" -> RemoveOp(m, calls.of[c].path)
      [] calls.of[c].op = "Chmod" -> ChmodOp(m, calls.of[c].path, 384)
      [] calls.of[c].op = "Create" ->
             OpenFileWrite(m, calls.of[c].path, {"RDWR", "CREATE", "TRUNC"}, 438)

\* the layers ls show the union the layers now show
SameView(ls) ==
    \A q \in UNION { DOMAIN ls[i] \cup DOMAIN layers[i] : i \in 1..Len(ls) } :
        ~isWhiteout(q) => Uncached(ls, q).err = Uncached(layers, q).err
                          /\ Uncached(ls, q).entry = Uncached(layers, q).entry

\* the calls returned, and the union is, as when x had made its call
\* first and y after it
SerialOrder(x, y) ==
    /\ SerialCall(x, [layers |-> calls.start, cache |-> EmptyCache]).err = calls.of[x].err
    /\ SerialCall(y, SerialCall(x, [layers |-> calls.start, cache |-> EmptyCache]).m).err
           = calls.of[y].err
    /\ SameView(SerialCall(y, SerialCall(x, [layers |-> calls.start,
                                             cache |-> EmptyCache]).m).m.layers)

\* C18: when both callers have made a mutation of the same path, what they
\* returned and the union they leave are those of one of the two serial
\* orders
C18_WritersSerialize ==
    /\ calls.of["a"].pc = "done" /\ calls.of["b"].pc = "done"
    /\ calls.of["a"].op \in Mutations /\ calls.of["b"].op \in Mutations
    /\ calls.of["a"].path = calls.of["b"].path
    => SerialOrder("a", "b") \/ SerialOrder("b", "a")

\* the positions of the layers New built that are not read-only
WritableAt == { i \in 1..Len(built.layers) : ~built.layers[i].readOnly }

\* C19: whatever options New is given, at most one layer it builds is not
\* read-only; that layer is the first of the stack and the one
\* writableLayer points to, and the read-only layers stand after it in the
\* order they were added
C19_LayerStack ==
    /\ Cardinality(WritableAt) <= 1
    /\ WritableAt # {} =>
           /\ WritableAt = {1}
           /\ built.writableLayer = built.layers[1].id
    /\ WritableAt = {} => built.writableLayer = -1
    /\ \A i, j \in 1..Len(built.layers) :
           i < j /\ built.layers[i].readOnly /\ built.layers[j].readOnly =>
               built.layers[i].id < built.layers[j].id

\* C20: with the cache enabled, neither map ever holds more than maxEntries
\* entries, whatever maxEntries the cache was built with
C20_CacheBound ==
    cfg.enabled =>
        /\ Cardinality(DOMAIN cache.stat) <= cfg.maxEntries
        /\ Cardinality(DOMAIN cache.neg) <= cfg.maxEntries

-----------------------------------------------------------------------------
(* Symbolic links: the engine over backends that have the LstatIfPossible  *)
(* and Readlink capabilities and hold links.  A link is an entry whose     *)
(* mode has the os.ModeSymlink bit and whose content is the target: the    *)
(* names of the target in order, the empty name first when the target      *)
(* starts with "/".  calls is the frame of the resolveSymlink in flight.   *)

\* os.ModeSymlink
ModeSymlink == 134217728

maxSymlinkDepth == 40

MaxDepth == 2

LinkEntry(target) == FileEntry(target, ModeSymlink + 511)

\* info.Mode()&os.ModeSymlink != 0
isSymlink(info) == (info.mode \div ModeSymlink) % 2 = 1

\* path.IsAbs(target)
IsAbs(target) == target # <<>> /\ Head(target) = <<>>

\* path.Clean of names joined by "/", made absolute: empty names and "."
\* dropped, ".." taking the last name kept away, "/.." staying "/"
RECURSIVE cleanNames(_, _)
cleanNames(done, rest) ==
    IF rest = <<>> THEN done
    ELSE IF Head(rest) = <<>> \/ Head(rest) = <<".">>
    THEN cleanNames(done, Tail(rest))
    ELSE IF Head(rest) = <<"..">> THEN cleanNames(Dir(done), Tail(rest))
    ELSE cleanNames(Append(done, Head(rest)), Tail(rest))

cleanPath(p) == cleanNames(Root, p)

\* LstatIfPossible: the first layer the loop does not skip and that holds p
LstatIfPossible(ls, p) ==
    LET found == Candidates(ls, p)
    IN  IF found = {} THEN [info |-> NoInfo, supported |-> FALSE, err |-> ErrNotExist]
        ELSE [info |-> InfoOf(ls[Min(found) + 1][p]), supported |-> TRUE, err |-> OK]

\* Readlink: the first layer the loop does not skip and that holds p gives
\* the target of a link, and the backend's error for another entry
Readlink(ls, p) ==
    LET found == Candidates(ls, p)
    IN  IF found = {} THEN [target |-> <<>>, err |-> ErrNotExist]
        ELSE IF ~isSymlink(InfoOf(ls[Min(found) + 1][p]))
        THEN [target |-> <<>>, err |-> ErrInvalid]
        ELSE [target |-> ls[Min(found) + 1][p].data, err |-> OK]

\* the path a link at p with this target leads to
resolved(p, target) ==
    IF IsAbs(target) THEN cleanPath(target) ELSE cleanPath(Dir(p) \o target)

Pending == "pending"

NoResolve == [of |-> Root, p |-> Root, maxDepth |-> 0, depth |-> 0, err |-> "idle"]

\* the body of resolveSymlink once Readlink(p) has answered rl: the frame
\* of the recursive call
resolveLink(fr, rl) ==
    IF rl.err # OK THEN [fr EXCEPT !.err = rl.err]
    ELSE [fr EXCEPT !.p = resolved(fr.p, rl.target), !.depth = fr.depth - 1]

\* the same with the depth handed on as it is
resolveFound_SameDepth(ls, fr, lst) ==
    IF lst.err # OK THEN [fr EXCEPT !.err = lst.err]
    ELSE IF ~lst.supported \/ ~isSymlink(lst.info) THEN [fr EXCEPT !.err = OK]
    ELSE [resolveLink(fr, Readlink(ls, fr.p)) EXCEPT !.depth = fr.depth]

\* the body of resolveSymlink once LstatIfPossible(p) has answered lst
resolveFound(ls, fr, lst) ==
    IF lst.err # OK THEN [fr EXCEPT !.err = lst.err]
    ELSE IF ~lst.supported \/ ~isSymlink(lst.info) THEN [fr EXCEPT !.err = OK]
    ELSE resolveLink(fr, Readlink(ls, fr.p))

\* one invocation of resolveSymlink(p, maxDepth)
resolveSymlink(ls, fr) ==
    IF fr.depth <= 0 THEN [fr EXCEPT !.err = ErrInvalid]
    ELSE resolveFound(ls, fr, LstatIfPossible(ls, fr.p))

Name(k) == [i \in 1..k |-> "x"]

Hop(k) == <<Name(k)>>

\* the target "/" then the names of p
AbsTarget(p) == << <<>> >> \o p

\* maxSymlinkDepth links in a row, the last one leading to a regular file
LinkChain ==
    [q \in { Hop(k) : k \in 1..(maxSymlinkDepth + 1) } |->
        IF Len(q[1]) <= maxSymlinkDepth
        THEN LinkEntry(AbsTarget(Hop(Len(q[1]) + 1)))
        ELSE FileEntry(<<1>>, 420)]

\* the stacks of two layers the links are resolved in
LinkStacks ==
    LET f == FileEntry(<<1>>, 420)
        d == DirEntry(448)
    IN  { << EmptyMap, LinkChain >>,
          \* a link with an absolute target and links with relative ones
          << EmptyMap, (pD :> d) @@ (pG :> LinkEntry(AbsTarget(pDF))) @@ (pDF :> f)
                       @@ (pDA :> LinkEntry(<< <<"f">> >>))
                       @@ (pDB :> LinkEntry(<< <<"..">>, <<".">>, <<"g">> >>)) >>,
          \* the link in one layer and its target in the other
          << (pD :> d) @@ (pDA :> LinkEntry(<< <<"f">> >>)), (pD :> d) @@ (pDF :> f) >>,
          \* two links leading to each other, and a link leading to itself
          << (pG :> LinkEntry(AbsTarget(pDA))),
             (pD :> d) @@ (pDA :> LinkEntry(<< <<"..">>, <<"g">> >>))
                       @@ (pDB :> LinkEntry(<< <<"B">> >>)) >>,
          \* a link to a path no layer holds, and a link behind a whiteout
          << (pD :> d) @@ (whiteoutPath(pDA) :> f),
             (pD :> d) @@ (pG :> LinkEntry(AbsTarget(pDF)))
                       @@ (pDA :> LinkEntry(AbsTarget(pG))) @@ (pDB :> f) >>,
          \* a file of the upper layer over a link of the lower one
          << (pG :> f), (pG :> LinkEntry(AbsTarget(pG))) >> }

LinkPaths == {pG, pDA, pDB, pDF, Hop(1), Hop(2), Hop(maxSymlinkDepth + 1)}

InitLink ==
    /\ cfg \in { c \in Configs : c.writable /\ ~c.enabled }
    /\ layers \in LinkStacks
    /\ cache = EmptyCache
    /\ now = 0
    /\ fh = NoHandle
    /\ nops = 0
    /\ nreads = 0
    /\ last = NoCall
    /\ calls = NoResolve
    /\ built = NotBuilt

\* resolveSymlink(p, maxDepth) called
ResolveSymlink(p, maxDepth) ==
    /\ calls.err = "idle"
    /\ calls' = [of |-> p, p |-> p, maxDepth |-> maxDepth, depth |-> maxDepth,
                 err |-> Pending]
    /\ UNCHANGED <<layers, cache, now, cfg, fh, nops, nreads, last, built>>

\* followSymlinks(path)
FollowSymlinks(p) == ResolveSymlink(p, maxSymlinkDepth)

\* the invocation in flight runs
ResolveStep ==
    /\ calls.err = Pending
    /\ calls' = resolveSymlink(layers, calls)
    /\ UNCHANGED <<layers, cache, now, cfg, fh, nops, nreads, last, built>>

NextLink ==
    \/ \E p \in LinkPaths : FollowSymlinks(p)
    \/ \E p \in LinkPaths, maxDepth \in 0..MaxDepth : ResolveSymlink(p, maxDepth)
    \/ ResolveStep

\* an invocation in flight is not held up for ever
SpecLink == InitLink /\ [][NextLink]_vars /\ WF_vars(ResolveStep)

\* the entry the union shows at p is a link
LinkAt(p) ==
    LET lst == LstatIfPossible(layers, p) IN lst.err = OK /\ isSymlink(lst.info)

\* the union shows an entry at p that is no link
PlainAt(p) ==
    LET lst == LstatIfPossible(layers, p) IN lst.err = OK /\ ~isSymlink(lst.info)

\* the path k links on from p, every one of them being a link
RECURSIVE HopsFrom(_, _)
HopsFrom(p, k) ==
    IF k = 0 THEN p
    ELSE LET q == HopsFrom(p, k - 1) IN resolved(q, Readlink(layers, q).target)

AllLinks(p, k) == \A j \in 0..(k - 1) : LinkAt(HopsFrom(p, j))

ResolveDone == calls.err \notin {"idle", Pending}

C21_ZeroTTLNeverHits ==
    cfg.enabled /\ cfg.statTTL = 0 => \A p \in DOMAIN cache.stat : ~getStatHit(cache, p)

\* the flags without O_CREATE a file is opened with
NoCreateFlags == { {}, {"WRONLY"}, {"RDWR"}, {"WRONLY", "APPEND"}, {"WRONLY", "TRUNC"} }

\* the error OpenFile(p, flag, 0644) would answer now
OpenErrNow(p, flag) ==
    IF IsWriteFlag(flag) THEN OpenFileWrite(Engine, p, flag, 420).err
    ELSE OpenFileRead(Engine, p).err

\* C23: OpenFile without O_CREATE of a path no layer holds unhidden fails
\* with not-found, under read-only flags and, given a writable layer, under
\* O_WRONLY, O_RDWR, O_APPEND and O_TRUNC
C23_OpenMissing ==
    \A p \in CheckPaths, flag \in NoCreateFlags :
        Candidates(layers, p) = {} /\ (IsWriteFlag(flag) => cfg.writable)
        => OpenErrNow(p, flag) = ErrNotExist

\* C24: with a writable layer, Truncate of a path whose owning layer holds a
\* directory there fails with invalid, leaves every layer as it was (no copy-up, the owner being a
\* lower layer or not) and leaves in the cache what the lookup of the path
\* alone leaves there
C24_TruncateDirectory ==
    [][ cfg.writable /\ nops' # nops /\ last'.op = "Truncate" /\ last'.pre.dir =>
            /\ last'.err = ErrInvalid
            /\ layers' = layers
            /\ cache' = findFile(Engine, last'.path).m.cache ]_vars

\* C25: once MkdirAll(P) has succeeded, Stat of P and of every directory
\* above it succeeds and reports a directory
C25_MkdirAllVisible ==
    last.op = "MkdirAll" /\ last.err = OK =>
        \A k \in 1..Len(last.path) :
            /\ StatNow(SubSeq(last.path, 1, k)).err = OK
            /\ StatNow(SubSeq(last.path, 1, k)).info.dir

\* C26: with the cache enabled, once a write-open or Create of P has
\* succeeded, Stat of the directory of P succeeds and reports a directory,
\* and ReadDir of it lists the name of P
C26_WriteInvalidatesParent ==
    cfg.enabled /\ last.op = "OpenFile" /\ IsWriteFlag(last.flag) /\ last.err = OK
                /\ Dir(last.path) # Root =>
        /\ StatNow(Dir(last.path)).err = OK
        /\ StatNow(Dir(last.path)).info.dir
        /\ ReadDirOp(Engine, Dir(last.path)).err = OK
        /\ Base(last.path) \in NamesOf(ReadDirOp(Engine, Dir(last.path)).entries)

-----------------------------------------------------------------------------
(* Copy-up alone: a lower layer holding /d and /d/f, the file of every     *)
(* length up to one more than the largest copy buffer, the engine built    *)
(* with WithCopyBufferSize                                                 *)

MaxBuf == 2

\* the sequences over S of length n
RECURSIVE SeqsOf(_, _)
SeqsOf(S, n) ==
    IF n = 0 THEN { <<>> }
    ELSE { Append(t, b) : t \in SeqsOf(S, n - 1), b \in S }

\* the contents of the lower layer's file
Contents == UNION { SeqsOf({1, 2}, n) : n \in 0..(MaxBuf + 1) }

\* WithCopyBufferSize(size)
WithCopyBufferSize(c, size) == [c EXCEPT !.copyBufferSize = size]

InitCopy ==
    /\ cfg \in { WithCopyBufferSize(c, size) : c \in { k \in Configs : k.writable },
                                               size \in 1..MaxBuf }
    /\ layers \in { << up, (Root :> DirEntry(448)) @@ (pD :> DirEntry(dm))
                           @@ (pDF :> FileEntry(data, fm)) >> :
                    up \in { (Root :> DirEntry(448)),
                             (Root :> DirEntry(448)) @@ (pD :> DirEntry(493)) },
                    dm \in {448, 493}, fm \in {384, 420}, data \in Contents }
    /\ cache = EmptyCache
    /\ now = 0
    /\ fh = NoHandle
    /\ nops = 0
    /\ nreads = 0
    /\ last = NoCall
    /\ calls = NoCalls
    /\ built = NotBuilt

\* copyUp(name, info) as the calls that change a path make it: after
\* findFile, when the layer found is a lower one
CopyUp(p) ==
    Mutation("copyUp", p, Root, copyUpIfLower(findFile(Engine, p), p))

NextCopy ==
    \/ \E p \in UserPaths : CopyUp(p)
    \/ \E p \in UserPaths : Stat(p)

SpecCopy == InitCopy /\ [][NextCopy]_vars

\* C27: when the copy-up of a path owned by a lower layer has succeeded, the
\* writable layer holds the path with the content, the mode bits and the
\* kind (file or directory) that layer holds for it
C27_CopyUpPreserves ==
    [][ nops' # nops /\ last'.op = "copyUp" /\ last'.err = OK /\ last'.pre.owner > 0 =>
            /\ Has(layers'[1], last'.path)
            /\ layers'[1][last'.path].dir = layers[last'.pre.owner + 1][last'.path].dir
            /\ layers'[1][last'.path].data = layers[last'.pre.owner + 1][last'.path].data
            /\ layers'[1][last'.path].mode = layers[last'.pre.owner + 1][last'.path].mode ]_vars

\* a file longer than the copy buffer was copied up with its mode 0600
C27_Witness ==
    /\ last.op = "copyUp" /\ last.err = OK /\ last.pre.owner > 0 /\ ~last.pre.dir
    /\ Len(last.pre.data) > cfg.copyBufferSize
    /\ layers[1][last.path].data = last.pre.data
    /\ layers[1][last.path].mode = 384

\* the calls that create the parent directory on their way: the write-open,
\* Remove, Rename and the calls that copy up
ParentMakers == {"OpenFile", "Remove", "Rename", "Chmod", "Chown", "Chtimes",
                 "Truncate", "Lchown"}

\* C28: when one of these calls on P leaves in the writable layer a
\* directory dir(P) that was not there and that a lower layer owns, the
\* directory has the mode the lower layer holds for it
C28_ParentKeepsMode ==
    [][ nops' # nops /\ last'.op \in ParentMakers =>
            \A D \in {Dir(last'.path)} :
                D # Root /\ ~Has(layers[1], D) /\ Has(layers'[1], D)
                         /\ Candidates(layers, D) # {}
                => layers'[1][D].mode = layers[Min(Candidates(layers, D)) + 1][D].mode ]_vars

\* map2 is map with exactly one entry of minimal expiry removed and then
\* the entry of p set, every other entry as it was
EvictedThenPut(map, map2, p) ==
    \E v \in DOMAIN map :
        /\ \A q \in DOMAIN map : map[v].expires <= map[q].expires
        /\ DOMAIN map2 = (DOMAIN map \ {v}) \cup {p}
        /\ \A q \in DOMAIN map2 \ {p} : map2[q] = map[q]

\* C29: putStat on a positive map that holds maxEntries entries removes
\* exactly one entry, one of minimal expiry, before it inserts, and leaves
\* the negative map as it was; putNegative does the same the other way round
C29_EvictionChoice ==
    \A p \in CachePaths :
        /\ Cardinality(DOMAIN cache.stat) = cfg.maxEntries =>
               /\ EvictedThenPut(cache.stat, putStat(cache, p, NoInfo, 0).stat, p)
               /\ putStat(cache, p, NoInfo, 0).neg = cache.neg
        /\ Cardinality(DOMAIN cache.neg) = cfg.maxEntries =>
               /\ EvictedThenPut(cache.neg, putNegative(cache, p).neg, p)
               /\ putNegative(cache, p).stat = cache.stat

\* the string of q starts with the string of prefix: every path for "/",
\* and else the paths whose names before the last name of prefix are those
\* of prefix and whose next name starts with that last name
StartsWith(q, prefix) ==
    \/ prefix = Root
    \/ /\ Len(q) >= Len(prefix)
       /\ SubSeq(q, 1, Len(prefix) - 1) = Dir(prefix)
       /\ HasPrefix(q[Len(prefix)], Base(prefix))

\* map2 is map without its entries at the paths of gone
Without(map, map2, gone) ==
    /\ DOMAIN map2 = DOMAIN map \ gone
    /\ \A q \in DOMAIN map2 : map2[q] = map[q]

\* C30: invalidate(p) removes the positive and the negative entry of p and
\* no other entry; invalidateTree(prefix) removes the entries of both maps
\* whose path starts with prefix as a string (prefix, the paths below it and
\* paths beside it such as /d2 for /d) and no other entry
C30_ExactInvalidation ==
    \A p \in CachePaths \cup {Root} :
        /\ Without(cache.stat, invalidate(cache, p).stat, {p})
        /\ Without(cache.neg, invalidate(cache, p).neg, {p})
        /\ Without(cache.stat, invalidateTree(cache, p).stat,
                   { q \in DOMAIN cache.stat : StartsWith(q, p) })
        /\ Without(cache.neg, invalidateTree(cache, p).neg,
                   { q \in DOMAIN cache.neg : StartsWith(q, p) })

\* invalidateTree("/d") was called on a cache holding /d2 and /g, and the
\* cache holds /g and no longer /d2
C30_Witness ==
    /\ last.op = "invalidateTree" /\ last.path = pD
    /\ {pD2, pG} \subseteq last.pre.held
    /\ pG \in DOMAIN cache.stat \cup DOMAIN cache.neg
    /\ pD2 \notin DOMAIN cache.stat \cup DOMAIN cache.neg

-----------------------------------------------------------------------------
(* Backends whose Stat can fail: a layer holds Faulty at a path when its   *)
(* Stat of that path answers an error that is not not-found (permission    *)
(* denied, an I/O error).  Whiteouts and markers are never Faulty here.    *)

Faulty == [dir |-> FALSE, data |-> <<>>, mode |-> 0, uid |-> -1, mtime |-> 0]

\* layer.fs.Stat(path)
BStat(fs, p) ==
    IF ~Has(fs, p) THEN [info |-> NoInfo, err |-> ErrNotExist]
    ELSE IF fs[p] = Faulty THEN [info |-> NoInfo, err |-> ErrIO]
    ELSE [info |-> InfoOf(fs[p]), err |-> OK]

RECURSIVE scanLayers(_, _, _)

\* the loop body of findFile going on to the next layer after any error
scanStat_Continue(m, p, i, st) ==
    IF st.err = OK
    THEN [info |-> st.info, layer |-> i, err |-> OK,
          m |-> [m EXCEPT !.cache = putStat(m.cache, p, st.info, i)]]
    ELSE scanLayers(m, p, i + 1)

\* the loop body of findFile at layer i once layer.fs.Stat has answered st
scanStat(m, p, i, st) ==
    IF st.err = OK
    THEN [info |-> st.info, layer |-> i, err |-> OK,
          m |-> [m EXCEPT !.cache = putStat(m.cache, p, st.info, i)]]
    ELSE IF st.err # ErrNotExist
    THEN [info |-> NoInfo, layer |-> -1, err |-> st.err, m |-> m]
    ELSE scanLayers(m, p, i + 1)

\* the layer loop of findFile from layer i on, and what follows the loop
scanLayers(m, p, i) ==
    IF i >= Len(m.layers)
    THEN [info |-> NoInfo, layer |-> -1, err |-> ErrNotExist,
          m |-> [m EXCEPT !.cache = putNegative(m.cache, p)]]
    ELSE IF checkWhiteout(m.layers, p, i) THEN scanLayers(m, p, i + 1)
    ELSE scanStat(m, p, i, BStat(m.layers[i + 1], p))

\* findFile over backends whose Stat can fail
findFileScan(m, p) ==
    IF getStatHit(m.cache, p)
    THEN [info |-> m.cache.stat[p].info, layer |-> m.cache.stat[p].layer,
          err |-> OK, m |-> m]
    ELSE IF isNegative(m.cache, p)
    THEN [info |-> NoInfo, layer |-> -1, err |-> ErrNotExist, m |-> m]
    ELSE scanLayers(m, p, 0)

\* what a layer holds at /d/f: nothing, a file, or a failing Stat
Holdings == {"none", "file", "fault"}

FaultLayer(h, marker, i) ==
    LET t == Tree(IF h = "file" THEN {pDF} ELSE {}, marker, {pD}, i)
    IN  IF h = "fault" THEN Put(t, pDF, Faulty) ELSE t

\* three layers, a whiteout of /d/f in none of them, in the first or in
\* the second
FaultStacks ==
    { << FaultLayer(h[1], IF w = 1 THEN {whiteoutPath(pDF)} ELSE {}, 0),
         FaultLayer(h[2], IF w = 2 THEN {whiteoutPath(pDF)} ELSE {}, 1),
         FaultLayer(h[3], {}, 2) >> : h \in [1..3 -> Holdings], w \in 0..2 }

InitFault ==
    /\ cfg \in { c \in Configs : c.writable }
    /\ layers \in FaultStacks
    /\ cache = EmptyCache
    /\ now = 0
    /\ fh = NoHandle
    /\ nops = 0
    /\ nreads = 0
    /\ last = NoCall
    /\ calls = NoCalls
    /\ built = NotBuilt

\* Stat(p) over these backends; last.pre.held keeps the layers holding p
StatScanned(p) ==
    /\ Commit(findFileScan(Engine, p).m)
    /\ last' = [NoCall EXCEPT !.op = "Stat", !.path = p,
                              !.err = findFileScan(Engine, p).err,
                              !.pre = [NoPre EXCEPT
                                  !.held = { i \in 0..(Len(layers) - 1) : Has(layers[i + 1], p) }]]
    /\ UNCHANGED <<now, cfg, fh, nops, nreads, calls, built>>

NextFault ==
    \/ \E p \in UserPaths : StatScanned(p)
    \/ Tick

SpecFault == InitFault /\ [][NextFault]_vars

\* the layers of the loop that are not skipped and whose Stat of p answers
\* something else than not-found
Answering(p) ==
    { i \in 0..(Len(layers) - 1) :
        ~checkWhiteout(layers, p, i) /\ BStat(layers[i + 1], p).err # ErrNotExist }

\* the lookup of p has to read the layers
CacheMiss(p) == ~getStatHit(cache, p) /\ ~isNegative(cache, p)

\* C31: when the first layer that answers the Stat of P with something else
\* than not-found answers an error, findFile returns that error, returns
\* what it returns with the layers below taken away, and leaves the cache
\* as it was; it adds a negative entry only when no layer answers
C31_ErrorPropagation ==
    \A p \in UserPaths :
        CacheMiss(p) =>
            /\ \A i \in Answering(p) :
                   i = Min(Answering(p)) /\ BStat(layers[i + 1], p).err # OK =>
                       /\ findFileScan(Engine, p).err = BStat(layers[i + 1], p).err
                       /\ findFileScan(Engine, p).m.cache = cache
                       /\ findFileScan([layers |-> SubSeq(layers, 1, i + 1),
                                        cache |-> cache], p).err
                              = findFileScan(Engine, p).err
            /\ findFileScan(Engine, p).m.cache.neg # cache.neg => Answering(p) = {}
            /\ Answering(p) = {} => p \in DOMAIN findFileScan(Engine, p).m.cache.neg
                                        \/ ~cfg.enabled

\* Stat of /d/f has failed with the error of the middle layer, the layer
\* below holds the file, and the cache holds nothing for /d/f
C31_Witness ==
    /\ last.op = "Stat" /\ last.path = pDF /\ last.err = ErrIO
    /\ BStat(layers[2], pDF).err = ErrIO
    /\ BStat(layers[3], pDF).err = OK
    /\ cfg.enabled
    /\ pDF \notin DOMAIN cache.stat \cup DOMAIN cache.neg

\* the offsets and counts the handle is called with
Offsets == {-2, -1, 0, 1, 2}

Counts == {-1, 0, 1, 2}

\* the listing the open handle works on: the one it read first, or the one
\* it reads now when it has read none
Snapshot == IF fh.loaded THEN fh.snap ELSE loadEntries(Engine, fh.path)

Max0(n) == IF n < 0 THEN 0 ELSE n

\* the position the claim gives Seek(offset, whence)
SeekByClaim(offset, whence) ==
    CASE whence = "SeekStart" -> Max0(offset)
      [] whence = "SeekCurrent" -> Max0(fh.pos + offset)
      [] whence = "SeekEnd" -> Max0(Len(Snapshot) + offset)

\* C32: the position of an open directory handle is never negative; Seek
\* sets it to max(0, base + offset), base being 0, the position or the
\* length of the snapshot, and returns it; at a position beyond the end of
\* the snapshot Readdir returns no entries, with no error or with EOF
C32_HandlePosition ==
    fh # NoHandle /\ fh.open /\ fh.dir =>
        /\ fh.pos >= 0
        /\ \A offset \in Offsets, whence \in Whence :
               /\ SeekCall(fh, Engine, offset, whence).err = OK
               /\ SeekCall(fh, Engine, offset, whence).pos = SeekByClaim(offset, whence)
               /\ SeekCall(fh, Engine, offset, whence).h.pos = SeekByClaim(offset, whence)
        /\ fh.pos > Len(Snapshot) =>
               \A count \in Counts :
                   /\ ReaddirCall(fh, Engine, count).result = <<>>
                   /\ ReaddirCall(fh, Engine, count).err \in {OK, ErrEOF}

\* the smaller of two numbers
Least(a, b) == IF a < b THEN a ELSE b

\* what the claim gives Readdir(count) at the handle's position: the
\* entries, the position afterwards and the error
PageByClaim(count) ==
    IF fh.pos >= Len(Snapshot)
    THEN [result |-> <<>>, pos |-> fh.pos, err |-> IF count > 0 THEN ErrEOF ELSE OK]
    ELSE IF count > 0
    THEN [result |-> SubSeq(Snapshot, fh.pos + 1, Least(fh.pos + count, Len(Snapshot))),
          pos |-> Least(fh.pos + count, Len(Snapshot)), err |-> OK]
    ELSE [result |-> SubSeq(Snapshot, fh.pos + 1, Len(Snapshot)),
          pos |-> Len(Snapshot), err |-> OK]

\* C33: on an open directory handle at position k of a snapshot of n
\* entries, Readdir(c) with c > 0 returns the entries k .. min(k+c, n)-1 and
\* moves the position to min(k+c, n), or returns EOF and nothing when
\* k >= n; with c <= 0 it returns all remaining entries and no error; the
\* position moves past everything returned, so that no entry comes twice;
\* on a closed handle Readdir and Seek fail with the closed error
C33_ReaddirPaging ==
    fh # NoHandle /\ fh.dir =>
        IF fh.open
        THEN \A count \in Counts :
                 /\ ReaddirCall(fh, Engine, count).result = PageByClaim(count).result
                 /\ ReaddirCall(fh, Engine, count).err = PageByClaim(count).err
                 /\ ReaddirCall(fh, Engine, count).h.pos = PageByClaim(count).pos
        ELSE /\ \A count \in Counts : ReaddirCall(fh, Engine, count).err = ErrClosed
             /\ \A offset \in Offsets, whence \in Whence :
                    SeekCall(fh, Engine, offset, whence).err = ErrClosed

\* ---- cleanPath on strings: a string is the sequence of its characters ----

Alphabet == {"/", ".", "a"}

Strings == UNION { [1..k -> Alphabet] : k \in 0..MaxStr }

\* path.Clean, the ".." case with something to take away: out.w--, then
\* back to the "/" before the last element or to dotdot; w is out.w
RECURSIVE backUp(_, _, _)
backUp(out, w, dotdot) ==
    IF w > dotdot /\ out[w + 1] # "/" THEN backUp(out, w - 1, dotdot)
    ELSE SubSeq(out, 1, w)

\* the index after the element of p that starts at r
RECURSIVE elementEnd(_, _)
elementEnd(p, r) ==
    IF r < Len(p) /\ p[r + 1] # "/" THEN elementEnd(p, r + 1) ELSE r

\* out with the separator that precedes a new element
withSlash(p, out) ==
    IF (p[1] = "/" /\ Len(out) # 1) \/ (p[1] # "/" /\ Len(out) # 0)
    THEN Append(out, "/") ELSE out

\* out with ".." appended, for a path that is not rooted
withDotDot(out) ==
    (IF Len(out) > 0 THEN Append(out, "/") ELSE out) \o <<".", ".">>

\* the loop of path.Clean: r characters of p are read, out is written,
\* dotdot is the index where ".." must stop
RECURSIVE cleanScan(_, _, _, _)
cleanScan(p, r, out, dotdot) ==
    IF r >= Len(p) THEN out
    ELSE IF p[r + 1] = "/" THEN cleanScan(p, r + 1, out, dotdot)
    ELSE IF p[r + 1] = "." /\ (r + 1 = Len(p) \/ p[r + 2] = "/")
    THEN cleanScan(p, r + 1, out, dotdot)
    ELSE IF p[r + 1] = "." /\ p[r + 2] = "." /\ (r + 2 = Len(p) \/ p[r + 3] = "/")
    THEN IF Len(out) > dotdot
         THEN cleanScan(p, r + 2, backUp(out, Len(out) - 1, dotdot), dotdot)
         ELSE IF p[1] # "/"
         THEN cleanScan(p, r + 2, withDotDot(out), Len(withDotDot(out)))
         ELSE cleanScan(p, r + 2, out, dotdot)
    ELSE cleanScan(p, elementEnd(p, r),
                   withSlash(p, out) \o SubSeq(p, r + 1, elementEnd(p, r)), dotdot)

\* path.Clean(p)
Clean(p) ==
    IF p = <<>> THEN <<".">>
    ELSE IF p[1] = "/"
    THEN cleanScan(p, 1, <<"/">>, 1)
    ELSE IF cleanScan(p, 0, <<>>, 0) = <<>> THEN <<".">>
    ELSE cleanScan(p, 0, <<>>, 0)

\* cleanPath(p) on strings
cleanPathString(p) ==
    IF Clean(p)[1] # "/" THEN <<"/">> \o Clean(p) ELSE Clean(p)

InitClean ==
    /\ cfg \in { c \in Configs : c.writable /\ ~c.enabled }
    /\ layers = << Tree({}, {}, {}, 0) >>
    /\ cache = EmptyCache
    /\ now = 0
    /\ fh = NoHandle
    /\ nops = 0
    /\ nreads = 0
    /\ \E p \in Strings : last = [NoCall EXCEPT !.op = "input", !.data = p]
    /\ calls = NoCalls
    /\ built = NotBuilt

\* cleanPath of the string at hand: last.path is what went in, last.data
\* what came out
CleanPathCall ==
    /\ last.op \in {"input", "cleanPath"}
    /\ last' = [NoCall EXCEPT !.op = "cleanPath", !.path = last.data,
                              !.data = cleanPathString(last.data)]
    /\ UNCHANGED <<layers, cache, now, cfg, fh, nops, nreads, calls, built>>

NextClean == CleanPathCall

SpecClean == InitClean /\ [][NextClean]_vars

\* p has an element "." or ".."
HasDots(p) ==
    \E i \in 1..Len(p) :
        /\ i = 1 \/ p[i - 1] = "/"
        /\ p[i] = "."
        /\ \/ i = Len(p)
           \/ p[i + 1] = "/"
           \/ p[i + 1] = "." /\ (i + 1 = Len(p) \/ p[i + 2] = "/")

\* p is what the claim calls normal
Normal(p) ==
    /\ p # <<>>
    /\ p[1] = "/"
    /\ ~HasDots(p)
    /\ p = <<"/">> \/ p[Len(p)] # "/"

\* C34: for every string p, cleanPath(p) starts with "/", has no "." or ".."
\* element and no trailing slash except for the root, and is its own
\* cleanPath
C34_CleanNormal ==
    last.op = "cleanPath" =>
        /\ Normal(last.data)
        /\ cleanPathString(last.data) = last.data

\* Stat(q) succeeds on the layers ls with the cache c
Seen(ls, c, q) == findFile([layers |-> ls, cache |-> c], q).err = OK

\* the step is a call of OpenFile that failed
OpenFailed ==
    /\ nops' # nops \/ nreads' # nreads
    /\ last'.op \in {"OpenFile", "Open"}
    /\ last'.err # OK

\* C35: a call of OpenFile that returns an error leaves the set of paths
\* for which Stat succeeds as it was; a write-open without O_CREATE of a
\* path hidden by a whiteout leaves that whiteout in place and does not
\* create the parent directory in the writable layer
C35_FailedOpenNoEffect ==
    [][ OpenFailed =>
            /\ \A q \in CheckPaths \cup CheckPaths' :
                   Seen(layers', cache', q) = Seen(layers, cache, q)
            /\ IsWriteFlag(last'.flag) /\ "CREATE" \notin last'.flag /\ cfg.writable
               /\ Candidates(layers, last'.path) = {}
               => /\ Has(layers[1], whiteoutPath(last'.path))
                     => Has(layers'[1], whiteoutPath(last'.path))
                  /\ ~Has(layers[1], Dir(last'.path))
                     => ~Has(layers'[1], Dir(last'.path)) ]_vars

\* the step is a call of OpenFile with O_CREATE|O_EXCL
ExclusiveCreate ==
    /\ nops' # nops
    /\ last'.op = "OpenFile"
    /\ {"CREATE", "EXCL"} \subseteq last'.flag

\* C36: OpenFile(P, O_CREATE|O_EXCL|...) fails with an exists error
\* whenever Stat(P) succeeds before the call, also when only a read-only
\* layer holds P; it never creates a file in the writable layer over a
\* visible file of a lower layer
C36_ExclusiveCreate ==
    [][ ExclusiveCreate /\ cfg.writable /\ Seen(layers, cache, last'.path) =>
            /\ last'.err = ErrExist
            /\ ~Has(layers[1], last'.path) => ~Has(layers'[1], last'.path) ]_vars

\* the names looked for in the directory D: every name a layer holds
\* there, and every name the paths of the calls have there
NamesIn(D) == { Base(q) : q \in { c \in CheckPaths : c # Root /\ Dir(c) = D } }

\* the name n is in the listing of D exactly when Stat(D/n) succeeds
Agree(D, n) ==
    n \in NamesOf(ReadDirOp(Engine, D).entries) <=> StatNow(Join(D, n)).err = OK

\* C37: with the cache disabled, for every directory D visible in the
\* union and every name n, n is in ReadDir(D) if and only if Stat(D/n)
\* succeeds
C37_ListingLookupAgree ==
    ~cfg.enabled =>
        \A D \in DirPaths :
            ReadDirOp(Engine, D).err = OK => \A n \in NamesIn(D) : Agree(D, n)

\* the path q below old, below new instead
Rebase(q, old, new) == new \o SubSeq(q, Len(old) + 1, Len(q))

\* what ReadFile(q) returns on the layers ls with the cache c
ReadOn(ls, c, q) == ReadFileOp([layers |-> ls, cache |-> c], q)

\* the step is a successful Rename of a visible directory that a lower
\* layer owns
RenamedLowerDir ==
    /\ nops' # nops
    /\ last'.op = "Rename"
    /\ last'.err = OK
    /\ last'.pre.vis /\ last'.pre.dir /\ last'.pre.owner > 0

\* C38: after Rename(old, new) succeeds for a directory old owned by a
\* lower layer, every descendant old/x visible before the call is visible
\* as new/x with the same content, and Stat(old/x) returns not-found
C38_RenameCarriesContents ==
    [][ RenamedLowerDir =>
            \A q \in CheckPaths :
                q # last'.path /\ IsUnder(q, last'.path) /\ Seen(layers, cache, q) =>
                    /\ Seen(layers', cache', Rebase(q, last'.path, last'.path2))
                    /\ ReadOn(layers', cache', Rebase(q, last'.path, last'.path2)).err
                           = ReadOn(layers, cache, q).err
                    /\ ReadOn(layers', cache', Rebase(q, last'.path, last'.path2)).data
                           = ReadOn(layers, cache, q).data
                    /\ ~Seen(layers', cache', q) ]_vars

\* ---- Remove of names that look like markers ----

\* a file named __dir_opaque in /d, and the whiteout of /d/f as a name of
\* its own
pDO == << <<"d">>, <<"__dir_opaque">> >>

pDW == whiteoutPath(pDF)

RemovePaths == {pD, pDF, pDO, pDW}

RemoveStacks ==
    { \* the lower layer holds /d/f and /d/__dir_opaque
      << Tree({}, {}, {}, 0), Tree({pDF, pDO}, {}, {pD}, 1) >>,
      \* the writable layer holds /d/__dir_opaque, the lower layer /d/f
      << Tree({pDO}, {}, {pD}, 0), Tree({pDF}, {}, {pD}, 1) >>,
      \* the writable layer holds the whiteout of the lower layer's /d/f
      << Tree({}, {pDW}, {pD}, 0), Tree({pDF}, {}, {pD}, 1) >>,
      \* /d/f held by both
      << Tree({pDF}, {}, {pD}, 0), Tree({pDF}, {}, {pD}, 1) >> }

InitRemove ==
    /\ cfg \in { c \in Configs : c.writable }
    /\ layers \in RemoveStacks
    /\ cache = EmptyCache
    /\ now = 0
    /\ fh = NoHandle
    /\ nops = 0
    /\ nreads = 0
    /\ last = NoCall
    /\ calls = NoCalls
    /\ built = NotBuilt

NextRemove ==
    \/ \E p \in RemovePaths : Remove(p)
    \/ \E p \in RemovePaths : Stat(p)
    \/ Tick

SpecRemove == InitRemove /\ [][NextRemove]_vars

\* the step is a call of Remove that succeeded
Removed ==
    /\ nops' # nops
    /\ last'.op = "Remove"
    /\ last'.err = OK

\* C39: after Remove(P) succeeds, Stat(Q) succeeds exactly when it did
\* before the call, for every Q that is neither P nor below P; also when P
\* is named __dir_opaque or has a name that begins with .wh.
C39_RemoveFrame ==
    [][ Removed =>
            \A q \in CheckPaths \cup CheckPaths' \cup RemovePaths :
                ~IsUnder(q, last'.path) =>
                    Seen(layers', cache', q) = Seen(layers, cache, q) ]_vars

\* ---- the two caches under every pair of lifetimes ----

\* the lifetimes given to WithCacheConfig
TTLs == 0..MaxClock

TTLStacks ==
    { << Tree({}, {}, {}, 0), Tree({}, {}, {}, 1) >>,
      << Tree({}, {}, {}, 0), Tree({pDF}, {}, {pD}, 1) >>,
      << Tree({pDF}, {}, {pD}, 0), Tree({}, {}, {}, 1) >> }

InitTTL ==
    /\ cfg \in { WithCacheConfig(TRUE, s, n, M) : s \in TTLs, n \in TTLs, M \in 1..MaxEntries }
    /\ layers \in TTLStacks
    /\ cache = EmptyCache
    /\ now = 0
    /\ fh = NoHandle
    /\ nops = 0
    /\ nreads = 0
    /\ last = NoCall
    /\ calls = NoCalls
    /\ built = NotBuilt

NextTTL ==
    \/ \E p \in UserPaths : Stat(p)
    \/ \E p \in UserPaths : Create(p)
    \/ HandleClose
    \/ \E p \in UserPaths : Mkdir(p, 493)
    \/ \E p \in UserPaths : Remove(p)
    \/ Tick

SpecTTL == InitTTL /\ [][NextTTL]_vars

\* the paths that both caches hold, expired or not
HeldTwice == DOMAIN cache.stat \cap DOMAIN cache.neg

\* C40: with the cache enabled, no path has an unexpired positive entry and
\* an unexpired negative entry at the same time, whatever the two lifetimes
C40_CacheExclusive ==
    \A p \in HeldTwice :
        ~(now <= cache.stat[p].expires /\ now <= cache.neg[p].expires)

\* a lookup has stored a positive entry for a path whose negative entry,
\* expired by now, is still in its map
C40_Witness ==
    /\ last.op = "Stat"
    /\ \E p \in HeldTwice :
           now <= cache.stat[p].expires /\ now > cache.neg[p].expires

====
